---- MODULE Spec2Model ----
(***************************************************************************)
(* Model of the door-opening core of advent.py (the Adventskalender web    *)
(* application): the prize pool file preise.json, the flat logs            *)
(* teilnehmer.txt and gewinner.txt, the user_rewards table, the qr_codes   *)
(* directory, the calendar switch and the request handler oeffne_tuerchen, *)
(* which Flask runs in one thread per request.                             *)
(*                                                                         *)
(* Text is modelled as sequences of one-character strings, so that the     *)
(* formatting and the parsing of log lines and of the admin's prize text   *)
(* are computed the way the code computes them.                            *)
(***************************************************************************)
EXTENDS Integers, Sequences, FiniteSets, TLC

(***************************************************************************)
(* Bounds of the model.                                                    *)
(***************************************************************************)
\* total number of HTTP requests (door openings, admin POSTs, start page
\* renderings) that are ever started
MaxRequests == 2
\* largest verbleibende_preise handed to gewinnchance_ermitteln directly
MaxPrizes == 15

(***************************************************************************)
(* Program constants.                                                      *)
(***************************************************************************)
\* range(1, 25): the doors 1..24 (the stop value of the range)
DoorRangeStop == 25
\* reduce_prize: the day on which pool entry 0 may be drawn
HauptpreisTag == 24
\* gewinnchance_ermitteln: verbleibende_tage = 25 - heutiges_datum.day
TageBasis == 25
\* gewinnchance_ermitteln: gewinnchance * 0.1, kept as the divisor 10
WinnerDivisor == 10
\* load_prizes: total and remaining of the default entry
DefaultTotal == 15
\* the month of the calendar
Dezember == 12
\* first and last hour of gewinn_zeiten
ErsteGewinnStunde == 12
LetzteGewinnStunde == 21

(***************************************************************************)
(* Text helpers (Python str methods on sequences of characters).           *)
(***************************************************************************)
DigitChars == <<"0", "1", "2", "3", "4", "5", "6", "7", "8", "9">>

\* str(n) for n >= 0
RECURSIVE Str(_)
Str(n) ==
    IF n < 10 THEN <<DigitChars[n + 1]>>
    ELSE Str(n \div 10) \o <<DigitChars[(n % 10) + 1]>>

IsSpace(c) == c = " "

\* s.strip()
RECURSIVE Strip(_)
Strip(s) ==
    IF s = <<>> THEN s
    ELSE IF IsSpace(s[1]) THEN Strip(Tail(s))
    ELSE IF IsSpace(s[Len(s)]) THEN Strip(SubSeq(s, 1, Len(s) - 1))
    ELSE s

\* s.find(c) + 1: the first position of c in s, 0 when c is not in s
FindFirst(s, c) ==
    IF \E i \in 1..Len(s) : s[i] = c
    THEN CHOOSE i \in 1..Len(s) : s[i] = c /\ \A j \in 1..(i - 1) : s[j] # c
    ELSE 0

\* s.rfind(c) + 1: the last position of c in s, 0 when c is not in s
FindLast(s, c) ==
    IF \E i \in 1..Len(s) : s[i] = c
    THEN CHOOSE i \in 1..Len(s) : s[i] = c /\ \A j \in (i + 1)..Len(s) : s[j] # c
    ELSE 0

\* s.split(c, 1)[0]
BeforeFirst(s, c) ==
    IF FindFirst(s, c) = 0 THEN s ELSE SubSeq(s, 1, FindFirst(s, c) - 1)

\* s.split(c, 1)[1] (only used when c is in s)
AfterFirst(s, c) == SubSeq(s, FindFirst(s, c) + 1, Len(s))

\* s.rsplit(c, 1)[0] and [1] (only used when c is in s)
BeforeLast(s, c) == SubSeq(s, 1, FindLast(s, c) - 1)
AfterLast(s, c) == SubSeq(s, FindLast(s, c) + 1, Len(s))

\* s.startswith(prefix)
StartsWith(s, prefix) ==
    /\ Len(prefix) <= Len(s)
    /\ SubSeq(s, 1, Len(prefix)) = prefix


UpperLetters ==
    <<"A", "B", "C", "D", "E", "F", "G", "H", "I", "J", "K", "L", "M",
      "N", "O", "P", "Q", "R", "S", "T", "U", "V", "W", "X", "Y", "Z">>
LowerLetters ==
    <<"a", "b", "c", "d", "e", "f", "g", "h", "i", "j", "k", "l", "m",
      "n", "o", "p", "q", "r", "s", "t", "u", "v", "w", "x", "y", "z">>

\* s.lower()
Lower(s) ==
    [i \in 1..Len(s) |->
        IF FindFirst(UpperLetters, s[i]) = 0 THEN s[i]
        ELSE LowerLetters[FindFirst(UpperLetters, s[i])]]

\* faulty variant of Max: the first argument is returned as it is
Max_First(a, b) == a

Max(a, b) == IF a >= b THEN a ELSE b
Min(a, b) == IF a <= b THEN a ELSE b

(***************************************************************************)
(* The world of the model: users, the clock, the doors.                    *)
(***************************************************************************)
\* ids of the registered users; 1 is a prefix of 11
UserIds == {1, 11}

\* users.display_name: one name holds '-', the other ':'
DisplayName(u) ==
    IF u = 1 THEN <<"A", "-", "2", "4">> ELSE <<"1", ":", "B">>

\* the moments get_local_datetime() can return, in the order they pass
Clock ==
    << [month |-> 11, day |-> 23, hour |-> 12],
       [month |-> 12, day |-> 23, hour |-> 11],
       [month |-> 12, day |-> 23, hour |-> 12],
       [month |-> 12, day |-> 24, hour |-> 12],
       [month |-> 12, day |-> 25, hour |-> 12] >>

\* the <int:tag> values requested
Tags == {23, 24, 25}

\* heute.year
Jahr == 2023

\* faulty variant of gewinn_zeiten: every hour of the day
gewinn_zeiten_AllDay == 0..23

\* gewinn_zeiten = [12, ..., 21]
gewinn_zeiten == ErsteGewinnStunde..LetzteGewinnStunde

\* the keys of tuerchen_status after {tag: set() for tag in range(1, 25)}
Doors == 1..(DoorRangeStop - 1)

(***************************************************************************)
(* teilnehmer.txt: one line per record [uid, name, tag].                   *)
(***************************************************************************)
\* speichere_teilnehmer: f"{user_identifier}:{display_name}-{tag}"
TeilnehmerLine(rec) ==
    Str(rec.uid) \o <<":">> \o rec.name \o <<"-">> \o Str(rec.tag)

\* faulty variant of TeilnehmerLineMatches: the line is split at its first '-'
TeilnehmerLineMatches_FirstDash(line, user_identifier, tag) ==
    LET cleaned == Strip(line) IN
    /\ cleaned # <<>>
    /\ FindFirst(cleaned, "-") # 0
    /\ BeforeFirst(BeforeFirst(cleaned, "-"), ":") = Str(user_identifier)
    /\ AfterFirst(cleaned, "-") = Str(tag)

\* faulty variant of TeilnehmerLineMatches: the line only has to start with
\* the id
TeilnehmerLineMatches_StartsWith(line, user_identifier, tag) ==
    LET cleaned == Strip(line) IN
    /\ cleaned # <<>>
    /\ FindLast(cleaned, "-") # 0
    /\ StartsWith(cleaned, Str(user_identifier))
    /\ AfterLast(cleaned, "-") = Str(tag)

\* the line test of hat_teilgenommen
TeilnehmerLineMatches(line, user_identifier, tag) ==
    LET cleaned == Strip(line) IN
    /\ cleaned # <<>>
    /\ FindLast(cleaned, "-") # 0
    /\ BeforeFirst(BeforeLast(cleaned, "-"), ":") = Str(user_identifier)
    /\ AfterLast(cleaned, "-") = Str(tag)

hat_teilgenommen(file, user_identifier, tag) ==
    \E i \in 1..Len(file) :
        TeilnehmerLineMatches(TeilnehmerLine(file[i]), user_identifier, tag)

\* faulty variant of speichere_teilnehmer: nothing is written
speichere_teilnehmer_NoWrite(file, user_identifier, display_name, tag) == file

\* faulty variant of speichere_teilnehmer: the file is opened with "w"
speichere_teilnehmer_Overwrites(file, user_identifier, display_name, tag) ==
    <<[uid |-> user_identifier, name |-> display_name, tag |-> tag]>>

speichere_teilnehmer(file, user_identifier, display_name, tag) ==
    Append(file, [uid |-> user_identifier, name |-> display_name, tag |-> tag])

(***************************************************************************)
(* gewinner.txt: one line per record [uid, name, tag, preis, sponsor,      *)
(* jahr].                                                                  *)
(***************************************************************************)
\* speichere_gewinner:
\* f"{uid}:{display_name} - Tag {tag} - {preis}{sponsor_text} - OV L11 - {jahr}"
GewinnerLine(rec) ==
    Str(rec.uid) \o <<":">> \o rec.name
        \o <<" ", "-", " ", "T", "a", "g", " ">> \o Str(rec.tag)
        \o <<" ", "-", " ">> \o rec.preis
        \o (IF rec.sponsor # <<>>
            THEN <<" ", "-", " ", "S", "p", "o", "n", "s", "o", "r", ":", " ">>
                     \o Strip(rec.sponsor)
            ELSE <<>>)
        \o <<" ", "-", " ", "O", "V", " ", "L", "1", "1", " ", "-", " ">>
        \o Str(rec.jahr)

\* faulty variant of hat_gewonnen: the line only has to start with the id
hat_gewonnen_StartsWith(file, user_identifier) ==
    \E i \in 1..Len(file) :
        StartsWith(Strip(GewinnerLine(file[i])), Str(user_identifier))

hat_gewonnen(file, user_identifier) ==
    \E i \in 1..Len(file) :
        LET line == Strip(GewinnerLine(file[i])) IN
        /\ line # <<>>
        /\ BeforeFirst(BeforeFirst(line, " "), ":") = Str(user_identifier)

speichere_gewinner(file, user_identifier, display_name, tag, preis, jahr, sponsor) ==
    Append(file, [uid |-> user_identifier, name |-> display_name, tag |-> tag,
                  preis |-> preis, sponsor |-> sponsor, jahr |-> jahr])

\* the lines remove_user_from_winners_file keeps
remove_user_from_winners_file(file, user_id) ==
    LET Keep(rec) ==
            ~StartsWith(Strip(GewinnerLine(rec)), Str(user_id) \o <<":">>)
    IN SelectSeq(file, Keep)

(***************************************************************************)
(* preise.json: the pool, a sequence of entries                            *)
(* [name, total, remaining, sponsor, sponsor_link].                        *)
(***************************************************************************)
PrizeEntry(name, total, remaining, sponsor, sponsor_link) ==
    [name |-> name, total |-> total, remaining |-> remaining,
     sponsor |-> sponsor, sponsor_link |-> sponsor_link]

\* default_prizes of load_prizes
default_prizes ==
    << PrizeEntry(<<"F", "r", "e", "i", "g", "e", "t", "r", "ä", "n", "k">>,
                  DefaultTotal, DefaultTotal, <<>>, <<>>) >>

\* the entries load_prizes builds from the file's data
LoadedEntries(file) ==
    LET Clean(e) ==
            PrizeEntry(Strip(e.name), Max(e.total, 0),
                       Max(Min(e.remaining, Max(e.total, 0)), 0),
                       Strip(e.sponsor), Strip(e.sponsor_link))
        Cleaned == [i \in 1..Len(file) |-> Clean(file[i])]
        Valid(e) == e.name # <<>> /\ e.total > 0
    IN SelectSeq(Cleaned, Valid)

\* load_prizes: what it returns ...
load_prizes(file) ==
    IF LoadedEntries(file) # <<>> THEN LoadedEntries(file) ELSE default_prizes

\* ... and what the file holds afterwards (save_prizes(default_prizes))
FileAfterLoad(file) ==
    IF LoadedEntries(file) # <<>> THEN file ELSE default_prizes

RECURSIVE SumRemaining(_)
SumRemaining(prizes) ==
    IF prizes = <<>> THEN 0
    ELSE prizes[1].remaining + SumRemaining(Tail(prizes))

RECURSIVE SumTotal(_)
SumTotal(prizes) ==
    IF prizes = <<>> THEN 0
    ELSE prizes[1].total + SumTotal(Tail(prizes))

\* faulty variant of get_prize_stats: remaining sums the totals
get_prize_stats_RemainingIsTotal(prizes) ==
    [prizes |-> prizes, total |-> SumTotal(prizes),
     remaining |-> SumTotal(prizes), awarded |-> 0]

\* get_prize_stats(prizes): (prizes, total, remaining, awarded)
get_prize_stats(prizes) ==
    [prizes |-> prizes, total |-> SumTotal(prizes),
     remaining |-> SumRemaining(prizes),
     awarded |-> SumTotal(prizes) - SumRemaining(prizes)]

\* faulty variant of Available: entries without stock are not skipped
Available_NoStockTest(prizes, current_day) ==
    {i \in 1..Len(prizes) : ~(i = 1 /\ current_day # HauptpreisTag)}

\* faulty variant of Available: position 1 is not held back before day 24
Available_NoReserve(prizes, current_day) ==
    {i \in 1..Len(prizes) : ~(prizes[i].remaining <= 0)}

\* reduce_prize: the positions of the list `available` (1-based; position 1
\* is the code's index 0)
Available(prizes, current_day) ==
    {i \in 1..Len(prizes) :
        /\ ~(prizes[i].remaining <= 0)
        /\ ~(i = 1 /\ current_day # HauptpreisTag)}

\* reduce_prize: the pool after `selected["remaining"] -= 1` for position i
Reduced(prizes, i) ==
    [prizes EXCEPT ![i].remaining = @ - 1]

\* release_rewards_for_user: build_key
build_key(name, sponsor) == <<Lower(Strip(name)), Lower(Strip(sponsor))>>

\* release_rewards_for_user: lookup.get(key) as a position of prizes, 0 for
\* None (the dict comprehension keeps the last entry of each key)
LookupIndex(prizes, key) ==
    LET Hits == {i \in 1..Len(prizes) :
                    build_key(prizes[i].name, prizes[i].sponsor) = key}
    IN IF Hits = {} THEN 0
       ELSE CHOOSE i \in Hits : \A j \in Hits : j <= i

\* faulty variant of ReleaseOne: remaining is raised without the test
\* against total
ReleaseOne_NoCap(prizes, reward) ==
    LET reward_key == build_key(reward.prize_name, reward.sponsor)
        exact == LookupIndex(prizes, reward_key)
        idx == IF exact # 0 THEN exact
               ELSE LookupIndex(prizes, <<reward_key[1], <<>>>>)
    IN IF idx = 0 THEN prizes
       ELSE [prizes EXCEPT ![idx].remaining = prizes[idx].remaining + 1]

\* release_rewards_for_user: one pass of the loop body
ReleaseOne(prizes, reward) ==
    LET reward_key == build_key(reward.prize_name, reward.sponsor)
        exact == LookupIndex(prizes, reward_key)
        idx == IF exact # 0 THEN exact
               ELSE LookupIndex(prizes, <<reward_key[1], <<>>>>)
    IN IF idx = 0 THEN prizes
       ELSE IF prizes[idx].remaining < prizes[idx].total
            THEN [prizes EXCEPT ![idx].remaining =
                                    Min(prizes[idx].remaining + 1, prizes[idx].total)]
            ELSE prizes

\* release_rewards_for_user: the loop over the rewards
RECURSIVE ReleaseAll(_, _)
ReleaseAll(prizes, rewardSeq) ==
    IF rewardSeq = <<>> THEN prizes
    ELSE ReleaseAll(ReleaseOne(prizes, rewardSeq[1]), Tail(rewardSeq))

\* a set of rows as the list a SELECT returns
RECURSIVE SeqOf(_)
SeqOf(S) ==
    IF S = {} THEN <<>>
    ELSE LET x == CHOOSE y \in S : TRUE IN <<x>> \o SeqOf(S \ {x})

\* faulty variant of release_rewards_for_user: nothing is put back
release_rewards_for_user_NothingBack(file, rewardSeq) ==
    IF rewardSeq = <<>> THEN file ELSE FileAfterLoad(file)

\* release_rewards_for_user: the file afterwards
release_rewards_for_user(file, rewardSeq) ==
    IF rewardSeq = <<>> THEN file
    ELSE LET prizes == load_prizes(file)
             released == ReleaseAll(prizes, rewardSeq)
         IN IF released # prizes THEN released ELSE FileAfterLoad(file)

(***************************************************************************)
(* The admin's prize text: Name[| Sponsor[ (https://link)]]=Total[/Rest]   *)
(***************************************************************************)
IsDigit(c) == FindFirst(DigitChars, c) # 0

\* does int(s) return (s already stripped): an optional sign and digits
IsInt(s) ==
    LET body == IF s # <<>> /\ s[1] \in {"-", "+"} THEN Tail(s) ELSE s IN
    /\ body # <<>>
    /\ \A i \in 1..Len(body) : IsDigit(body[i])

RECURSIVE DigitsValue(_)
DigitsValue(s) ==
    IF s = <<>> THEN 0
    ELSE 10 * DigitsValue(SubSeq(s, 1, Len(s) - 1))
             + (FindFirst(DigitChars, s[Len(s)]) - 1)

\* int(s)
IntOf(s) ==
    IF s[1] = "-" THEN 0 - DigitsValue(Tail(s))
    ELSE IF s[1] = "+" THEN DigitsValue(Tail(s))
    ELSE DigitsValue(s)

\* the last position <= bound of "(" in s, 0 when there is none
FindParenUpTo(s, bound) ==
    LET Hits == {i \in 1..bound : s[i] = "("} IN
    IF Hits = {} THEN 0 ELSE CHOOSE i \in Hits : \A j \in Hits : j <= i

\* extract_sponsor_details: the while loop, searching from position bound
RECURSIVE SponsorSearch(_, _)
SponsorSearch(stripped, bound) ==
    IF bound <= 0 THEN [name |-> stripped, link |-> <<>>]
    ELSE LET start == FindParenUpTo(stripped, bound) IN
         IF start = 0 THEN [name |-> stripped, link |-> <<>>]
         ELSE LET remainder == Strip(SubSeq(stripped, start + 1, Len(stripped)))
                  closes == remainder # <<>> /\ remainder[Len(remainder)] = ")"
                  url_candidate ==
                      IF closes THEN Strip(SubSeq(remainder, 1, Len(remainder) - 1))
                      ELSE <<>>
                  is_url ==
                      \/ StartsWith(Lower(url_candidate),
                                    <<"h", "t", "t", "p", ":", "/", "/">>)
                      \/ StartsWith(Lower(url_candidate),
                                    <<"h", "t", "t", "p", "s", ":", "/", "/">>)
              IN IF closes /\ url_candidate # <<>> /\ is_url
                 THEN [name |-> Strip(SubSeq(stripped, 1, start - 1)),
                       link |-> url_candidate]
                 ELSE SponsorSearch(stripped, start - 1)

extract_sponsor_details(sponsor_part) ==
    LET text == Strip(sponsor_part) IN
    IF text = <<>> THEN [name |-> <<>>, link |-> <<>>]
    ELSE SponsorSearch(text, Len(text))

\* parse_prize_configuration: one line; kind is "skip" (blank line or
\* total 0), "entry", or the error raised
ParseLine(line) ==
    LET stripped == Strip(line)
        name_part == Strip(BeforeLast(stripped, "="))
        amount_part == Strip(AfterLast(stripped, "="))
        has_sponsor == FindFirst(name_part, "|") # 0
        name == IF has_sponsor THEN Strip(BeforeFirst(name_part, "|")) ELSE name_part
        details == IF has_sponsor
                   THEN extract_sponsor_details(Strip(AfterFirst(name_part, "|")))
                   ELSE [name |-> <<>>, link |-> <<>>]
        has_slash == FindFirst(amount_part, "/") # 0
        total_part == IF has_slash THEN Strip(BeforeFirst(amount_part, "/"))
                      ELSE amount_part
        remaining_part == IF has_slash THEN Strip(AfterFirst(amount_part, "/"))
                          ELSE amount_part
        total == Max(IntOf(total_part), 0)
        remaining == Max(Min(IntOf(remaining_part), total), 0)
    IN IF stripped = <<>> THEN [kind |-> "skip"]
       ELSE IF FindFirst(stripped, "=") = 0 THEN [kind |-> "format"]
       ELSE IF name_part = <<>> THEN [kind |-> "name"]
       ELSE IF amount_part = <<>> THEN [kind |-> "amount"]
       ELSE IF name = <<>> THEN [kind |-> "name"]
       ELSE IF ~(IsInt(total_part) /\ IsInt(remaining_part)) THEN [kind |-> "invalid"]
       ELSE IF total = 0 THEN [kind |-> "skip"]
       ELSE [kind |-> "entry",
             entry |-> PrizeEntry(name, total, remaining, details.name, details.link)]

\* faulty variant of ParseFrom: blank lines are not counted in the line
\* number that is reported (the lines not yet read are handed on)
RECURSIVE ParseFrom_BlankNotCounted(_, _, _)
ParseFrom_BlankNotCounted(lines, idx, prizes) ==
    IF lines = <<>>
    THEN IF prizes = <<>> THEN [ok |-> FALSE, line |-> 0, kind |-> "empty"]
         ELSE [ok |-> TRUE, prizes |-> prizes]
    ELSE LET r == ParseLine(lines[1]) IN
         IF Strip(lines[1]) = <<>>
         THEN ParseFrom_BlankNotCounted(Tail(lines), idx, prizes)
         ELSE IF r.kind = "skip"
              THEN ParseFrom_BlankNotCounted(Tail(lines), idx + 1, prizes)
              ELSE IF r.kind = "entry"
                   THEN ParseFrom_BlankNotCounted(Tail(lines), idx + 1,
                                                  Append(prizes, r.entry))
                   ELSE [ok |-> FALSE, line |-> idx, kind |-> r.kind]

\* faulty variant of ParseFrom: at a line in error the entries of the lines
\* before it are returned
RECURSIVE ParseFrom_KeepsPrefix(_, _, _)
ParseFrom_KeepsPrefix(lines, idx, prizes) ==
    IF idx > Len(lines)
    THEN IF prizes = <<>> THEN [ok |-> FALSE, line |-> 0, kind |-> "empty"]
         ELSE [ok |-> TRUE, prizes |-> prizes]
    ELSE LET r == ParseLine(lines[idx]) IN
         IF r.kind = "skip" THEN ParseFrom_KeepsPrefix(lines, idx + 1, prizes)
         ELSE IF r.kind = "entry"
              THEN ParseFrom_KeepsPrefix(lines, idx + 1, Append(prizes, r.entry))
              ELSE IF prizes = <<>> THEN [ok |-> FALSE, line |-> idx, kind |-> r.kind]
                   ELSE [ok |-> TRUE, prizes |-> prizes]

\* parse_prize_configuration: the loop from line idx on, prizes collected so far
RECURSIVE ParseFrom(_, _, _)
ParseFrom(lines, idx, prizes) ==
    IF idx > Len(lines)
    THEN IF prizes = <<>> THEN [ok |-> FALSE, line |-> 0, kind |-> "empty"]
         ELSE [ok |-> TRUE, prizes |-> prizes]
    ELSE LET r == ParseLine(lines[idx]) IN
         IF r.kind = "skip" THEN ParseFrom(lines, idx + 1, prizes)
         ELSE IF r.kind = "entry" THEN ParseFrom(lines, idx + 1, Append(prizes, r.entry))
         ELSE [ok |-> FALSE, line |-> idx, kind |-> r.kind]

\* parse_prize_configuration(prize_data), prize_data.splitlines() given
parse_prize_configuration(lines) == ParseFrom(lines, 1, <<>>)

\* "\n".join(lines)
RECURSIVE JoinLines(_)
JoinLines(lines) ==
    IF lines = <<>> THEN <<>>
    ELSE IF Len(lines) = 1 THEN lines[1]
    ELSE lines[1] \o <<"\n">> \o JoinLines(Tail(lines))

\* prize_data.splitlines(): the empty text has no line, and a newline at the
\* end opens no further line
RECURSIVE SplitLines(_)
SplitLines(text) ==
    IF text = <<>> THEN <<>>
    ELSE IF FindFirst(text, "\n") = 0 THEN <<text>>
    ELSE <<BeforeFirst(text, "\n")>> \o SplitLines(AfterFirst(text, "\n"))

\* format_prize_lines: the line of one prize
FormatPrizeLine(prize) ==
    LET sponsor == Strip(prize.sponsor)
        sponsor_link == Strip(prize.sponsor_link)
        sponsor_segment ==
            IF sponsor_link # <<>>
            THEN sponsor \o <<" ", "(">> \o sponsor_link \o <<")">>
            ELSE sponsor
        name_segment ==
            IF sponsor # <<>>
            THEN prize.name \o <<" ", "|", " ">> \o sponsor_segment
            ELSE prize.name
    IN IF prize.remaining # prize.total
       THEN name_segment \o <<"=">> \o Str(prize.total) \o <<"/">>
                \o Str(prize.remaining)
       ELSE name_segment \o <<"=">> \o Str(prize.total)

\* format_prize_lines(prizes): the text of the admin's prize field
format_prize_lines(prizes) ==
    JoinLines([i \in 1..Len(prizes) |-> FormatPrizeLine(prizes[i])])

\* texts the admin posts as prize_data that hold an error: a count that is
\* no number, a line without '=', no name, no count, no name before the
\* sponsor (each behind a valid line), and no entry with a positive total
BadConfigTexts ==
    { << <<"W", "=", "1">>, <<"H", "=", "x">> >>,
      << <<"W", "=", "1">>, <<"H">> >>,
      << <<"W", "=", "1">>, <<"=", "2">> >>,
      << <<"W", "=", "1">>, <<"H", "=">> >>,
      << <<"W", "=", "1">>, <<" ", "|", " ", "S", "=", "2">> >>,
      << <<"W", "=", "0">>, <<" ">> >> }

\* the texts the admin posts as prize_data
ConfigTexts ==
    { << <<"H", "=", "1">>,
         <<"W", " ", "|", " ", "S", "=", "2", "/", "5">> >>,
      << <<"W", "=", "2", "/", "1">> >> } \cup BadConfigTexts

\* the pool preise.json holds at the start, when the file exists
InitialPool ==
    << PrizeEntry(<<"H">>, 1, 1, <<>>, <<>>),
       PrizeEntry(<<"W">>, 1, 1, <<"S">>, <<>>) >>

\* the same pool with every prize given away
SoldOutPool ==
    << PrizeEntry(<<"H">>, 1, 0, <<>>, <<>>),
       PrizeEntry(<<"W">>, 1, 0, <<"S">>, <<>>) >>

(***************************************************************************)
(* user_rewards and qr_codes.                                              *)
(***************************************************************************)
\* qr_filename = f"user_{user_id}_{tag}.png"
QrFilename(user_id, tag) ==
    <<"u", "s", "e", "r", "_">> \o Str(user_id) \o <<"_">> \o Str(tag)
        \o <<".", "p", "n", "g">>

\* the columns of user_rewards in init_user_db's CREATE TABLE
CurrentColumns ==
    {"id", "user_id", "door", "prize_name", "sponsor", "sponsor_link",
     "qr_filename", "qr_content", "created_at"}

\* user_rewards as init_user_db creates it
CurrentSchema == [columns |-> CurrentColumns, unique |-> TRUE]

\* no user_rewards table in the database
NoTable == [columns |-> {}, unique |-> FALSE]

\* init_user_db: CREATE TABLE IF NOT EXISTS user_rewards; a table that
\* exists is left as it is
init_user_db(schema) == IF schema = NoTable THEN CurrentSchema ELSE schema

\* record_user_reward: does the table take the INSERT: it needs the columns
\* named and, for ON CONFLICT(user_id, door), a uniqueness constraint on them
InsertFits(schema) ==
    /\ {"user_id", "door", "prize_name", "sponsor", "sponsor_link",
        "qr_filename", "qr_content", "created_at"} \subseteq schema.columns
    /\ schema.unique

\* get_user_rewards: does the table take the SELECT
SelectFits(schema) ==
    {"user_id", "door", "prize_name", "sponsor", "sponsor_link",
     "qr_filename", "qr_content", "created_at"} \subseteq schema.columns

\* record_user_reward: the table after INSERT ... ON CONFLICT(user_id, door)
\* DO UPDATE; None is the empty text
RewardRow(user_id, door, prize_name, sponsor, sponsor_link, qr_filename, created_at) ==
    [user_id |-> user_id, door |-> door, prize_name |-> Strip(prize_name),
     sponsor |-> Strip(sponsor), sponsor_link |-> Strip(sponsor_link),
     qr_filename |-> Strip(qr_filename), created_at |-> created_at]

\* faulty variant of UpsertReward: a plain INSERT, the row is added
UpsertReward_Inserts(table, row) == table \cup {row}

\* INSERT ... ON CONFLICT(user_id, door) DO UPDATE SET ...
UpsertReward(table, row) ==
    {r \in table : ~(r.user_id = row.user_id /\ r.door = row.door)} \cup {row}

(***************************************************************************)
(* The odds: gewinnchance as the fraction num / den.                       *)
(***************************************************************************)
\* faulty variant of gewinnchance_ermitteln: verbleibende_preise <= 0 is not
\* tested
gewinnchance_ermitteln_NoPrizeTest(winners, user_identifier, day, verbleibende_preise) ==
    LET verbleibende_tage == TageBasis - day IN
    IF verbleibende_tage <= 0
    THEN [num |-> 0, den |-> 1]
    ELSE IF hat_gewonnen(winners, user_identifier)
         THEN [num |-> verbleibende_preise, den |-> verbleibende_tage * WinnerDivisor]
         ELSE [num |-> verbleibende_preise, den |-> verbleibende_tage]

\* faulty variant of gewinnchance_ermitteln: a previous winner gets no chance
gewinnchance_ermitteln_WinnersBlocked(winners, user_identifier, day, verbleibende_preise) ==
    LET verbleibende_tage == TageBasis - day IN
    IF verbleibende_tage <= 0 \/ verbleibende_preise <= 0
           \/ hat_gewonnen(winners, user_identifier)
    THEN [num |-> 0, den |-> 1]
    ELSE [num |-> verbleibende_preise, den |-> verbleibende_tage]

gewinnchance_ermitteln(winners, user_identifier, day, verbleibende_preise) ==
    LET verbleibende_tage == TageBasis - day IN
    IF verbleibende_tage <= 0 \/ verbleibende_preise <= 0
    THEN [num |-> 0, den |-> 1]
    ELSE IF hat_gewonnen(winners, user_identifier)
         THEN [num |-> verbleibende_preise, den |-> verbleibende_tage * WinnerDivisor]
         ELSE [num |-> verbleibende_preise, den |-> verbleibende_tage]

\* random.random() < gewinnchance with random.random() in [0, 1): the
\* outcomes the draw can have
RandomBelow(chance) ==
    {b \in BOOLEAN : (b => chance.num > 0) /\ (~b => chance.num < chance.den)}

(***************************************************************************)
(* State.                                                                  *)
(***************************************************************************)
VARIABLES
    now,              \* position in Clock of the current local time
    calendar_active,  \* the module global calendar_active
    users,            \* ids of the rows of the users table
    teilnehmer,       \* teilnehmer.txt
    gewinner,         \* gewinner.txt
    preise,           \* preise.json; <<>> when missing or without valid entry
    user_rewards,     \* rows of the user_rewards table
    qr_codes,         \* file names in qr_codes/
    tuerchen_status,  \* the keys of the module global tuerchen_status
    pc,               \* where each request thread of oeffne_tuerchen stands
    req,              \* the locals of each request thread
    requests,         \* HTTP requests started so far
    is_error,         \* admin_page's is_error after its last POST
    call,             \* the last direct call of a function: its arguments and
                      \* what it returned
    rewards_schema,   \* the user_rewards table as created: its columns, and
                      \* whether it has UNIQUE(user_id, door)
    kalender_status   \* kalender_status.json

vars == <<now, calendar_active, users, teilnehmer, gewinner, preise, user_rewards,
          qr_codes, tuerchen_status, pc, req, requests, is_error, call,
          rewards_schema, kalender_status>>

\* the ledgers a door opening can write
ledgers == <<teilnehmer, gewinner, preise, user_rewards, qr_codes>>

\* the request threads
Procs == {1, 2}

NoPrize == [name |-> <<>>]

\* the locals of a thread that serves no request
IdleReq ==
    [user |-> 0, tag |-> 0, heute |-> 0, prizes |-> <<>>, verbleibende_preise |-> 0,
     preis |-> NoPrize, recorded |-> "none", result |-> "none"]

\* what is kept of a request that has responded: who asked for which door,
\* the outcome of record_user_reward and the response; the other locals are
\* dead from here on
Responded(user_id, tag, recorded, result) ==
    [IdleReq EXCEPT !.user = user_id, !.tag = tag, !.recorded = recorded,
                    !.result = result]

\* the response of thread p
Respond(p, result) ==
    /\ pc' = [pc EXCEPT ![p] = "done"]
    /\ req' = [req EXCEPT ![p] = Responded(req[p].user, req[p].tag,
                                           req[p].recorded, result)]

\* kalender_status.json: no file, or the flag it holds
NoStatusFile == [exists |-> FALSE, active |-> TRUE]

\* load_calendar_status(): the flag of the file, True without a file
load_calendar_status(file) == IF file.exists THEN file.active ELSE TRUE

\* save_calendar_status(active): the file afterwards
save_calendar_status(active) == [exists |-> TRUE, active |-> active]

\* faulty variant of set_calendar_active: the flag is toggled
set_calendar_active_Toggles(active) == ~calendar_active

\* set_calendar_active(active): the new value of the global calendar_active
set_calendar_active(active) == active

\* get_calendar_active()
get_calendar_active == calendar_active

\* no function has been called directly
NoCall == [fn |-> "none"]

Init ==
    /\ now = 1
    /\ calendar_active = TRUE
    /\ users = UserIds
    /\ teilnehmer = <<>>
    /\ gewinner = <<>>
    /\ preise \in {<<>>, InitialPool, SoldOutPool}
    /\ user_rewards = {}
    /\ qr_codes = {}
    /\ tuerchen_status = Doors
    /\ pc = [p \in Procs |-> "idle"]
    /\ req = [p \in Procs |-> IdleReq]
    /\ requests = 0
    /\ is_error = FALSE
    /\ call = NoCall
    /\ rewards_schema = init_user_db(NoTable)
    /\ kalender_status = NoStatusFile

(***************************************************************************)
(* oeffne_tuerchen(tag), one action per step a thread takes between its    *)
(* accesses to shared state.                                               *)
(***************************************************************************)
\* faulty variant of DateMatches: the month is not looked at
DateMatches_DayOnly(date, tag) == date.day = tag

\* the date test of the gate: heute.month == 12 and heute.day == tag
DateMatches(date, tag) == date.month = Dezember /\ date.day = tag

\* the answer of the gate for the session user user_id: "pass" or the
\* response the handler returns
GateAnswer(user_id, active, date, tag) ==
    IF user_id \notin users THEN "LoginRedirect"
    ELSE IF ~active THEN "CalendarInactive"
    ELSE IF DateMatches(date, tag) THEN "pass"
    ELSE "NotYetAvailable"

\* a thread is free before its first request and after it has responded;
\* the server hands a request to a free thread (the threads are alike, so
\* the model takes the first)
IsFree(p) == pc[p] \in {"idle", "done"}
FreeThread ==
    IF \E p \in Procs : IsFree(p)
    THEN CHOOSE p \in Procs : IsFree(p) /\ \A q \in Procs : IsFree(q) => p <= q
    ELSE 0

\* faulty variant of OpenGate: the participation is written before the gate decides
OpenGate_WritesFirst(p, user_id, tag) ==
    /\ p = FreeThread
    /\ requests < MaxRequests
    /\ requests' = requests + 1
    /\ teilnehmer' = speichere_teilnehmer(teilnehmer, user_id, DisplayName(user_id), tag)
    /\ LET answer == GateAnswer(user_id, get_calendar_active, Clock[now], tag)
           started == [IdleReq EXCEPT !.user = user_id, !.tag = tag, !.heute = now]
       IN IF answer = "pass"
          THEN /\ pc' = [pc EXCEPT ![p] = "check"]
               /\ req' = [req EXCEPT ![p] = started]
          ELSE /\ pc' = [pc EXCEPT ![p] = "done"]
               /\ req' = [req EXCEPT ![p] = Responded(user_id, tag, "none", answer)]
    /\ UNCHANGED <<now, calendar_active, users, gewinner, preise,
                   user_rewards, qr_codes, tuerchen_status,
                   is_error, call, rewards_schema, kalender_status>>

\* the request arrives: session and user lookup, calendar switch, date
OpenGate(p, user_id, tag) ==
    /\ p = FreeThread
    /\ requests < MaxRequests
    /\ requests' = requests + 1
    /\ LET answer == GateAnswer(user_id, get_calendar_active, Clock[now], tag)
           started == [IdleReq EXCEPT !.user = user_id, !.tag = tag, !.heute = now]
       IN IF answer = "pass"
          THEN /\ pc' = [pc EXCEPT ![p] = "check"]
               /\ req' = [req EXCEPT ![p] = started]
          ELSE /\ pc' = [pc EXCEPT ![p] = "done"]
               /\ req' = [req EXCEPT ![p] = Responded(user_id, tag, "none", answer)]
    /\ UNCHANGED <<now, calendar_active, users, teilnehmer, gewinner, preise,
                   user_rewards, qr_codes, tuerchen_status,
                   is_error, call, rewards_schema, kalender_status>>

\* if hat_teilgenommen(user_id, tag): "bereits geöffnet"
OpenCheck(p) ==
    /\ pc[p] = "check"
    /\ IF hat_teilgenommen(teilnehmer, req[p].user, req[p].tag)
       THEN Respond(p, "AlreadyOpened")
       ELSE pc' = [pc EXCEPT ![p] = "record"] /\ UNCHANGED req
    /\ UNCHANGED <<now, calendar_active, users, teilnehmer, gewinner, preise,
                   user_rewards, qr_codes, tuerchen_status, requests,
                   is_error, call, rewards_schema, kalender_status>>

\* speichere_teilnehmer(...); tuerchen_status[tag].add(...) raises KeyError
\* when the dict has no key tag
OpenRecord(p) ==
    /\ pc[p] = "record"
    /\ teilnehmer' = speichere_teilnehmer(teilnehmer, req[p].user,
                                          DisplayName(req[p].user), req[p].tag)
    /\ IF req[p].tag \in tuerchen_status
       THEN pc' = [pc EXCEPT ![p] = "stats"] /\ UNCHANGED req
       ELSE Respond(p, "InternalError")
    /\ UNCHANGED <<now, calendar_active, users, gewinner, preise, user_rewards,
                   qr_codes, tuerchen_status, requests,
                   is_error, call, rewards_schema, kalender_status>>

\* prizes, max_preise, verbleibende_preise, _ = get_prize_stats()
OpenStats(p) ==
    /\ pc[p] = "stats"
    /\ preise' = FileAfterLoad(preise)
    /\ LET stats == get_prize_stats(load_prizes(preise)) IN
       IF stats.remaining <= 0
       THEN Respond(p, "PoolExhausted")
       ELSE /\ pc' = [pc EXCEPT ![p] = "odds"]
            /\ req' = [req EXCEPT ![p].prizes = stats.prizes,
                                  ![p].verbleibende_preise = stats.remaining]
    /\ UNCHANGED <<now, calendar_active, users, teilnehmer, gewinner, user_rewards,
                   qr_codes, tuerchen_status, requests,
                   is_error, call, rewards_schema, kalender_status>>

\* faulty variant of OpenOdds: reduce_prize runs before the hour and the
\* random value are tested
OpenOdds_DrawsFirst(p, below) ==
    /\ pc[p] = "odds"
    /\ below \in RandomBelow(gewinnchance_ermitteln(gewinner, req[p].user,
                                Clock[req[p].heute].day, req[p].verbleibende_preise))
    /\ LET available == Available(req[p].prizes, Clock[req[p].heute].day) IN
       preise' = IF available = {} THEN preise
                 ELSE Reduced(req[p].prizes, CHOOSE i \in available : TRUE)
    /\ IF Clock[now].hour \in gewinn_zeiten /\ below
       THEN pc' = [pc EXCEPT ![p] = "draw"] /\ UNCHANGED req
       ELSE Respond(p, "Lost")
    /\ UNCHANGED <<now, calendar_active, users, teilnehmer, gewinner,
                   user_rewards, qr_codes, tuerchen_status, requests,
                   is_error, call, rewards_schema, kalender_status>>

\* gewinnchance_ermitteln(...), then
\* get_local_datetime().hour in gewinn_zeiten and random.random() < gewinnchance
OpenOdds(p, below) ==
    /\ pc[p] = "odds"
    /\ below \in RandomBelow(gewinnchance_ermitteln(gewinner, req[p].user,
                                Clock[req[p].heute].day, req[p].verbleibende_preise))
    /\ IF Clock[now].hour \in gewinn_zeiten /\ below
       THEN pc' = [pc EXCEPT ![p] = "draw"] /\ UNCHANGED req
       ELSE Respond(p, "Lost")
    /\ UNCHANGED <<now, calendar_active, users, teilnehmer, gewinner, preise,
                   user_rewards, qr_codes, tuerchen_status, requests,
                   is_error, call, rewards_schema, kalender_status>>

\* faulty variant of OpenDrawNone: the None of reduce_prize is used as a
\* prize, which raises
OpenDrawNone_Raises(p) ==
    /\ pc[p] = "draw"
    /\ Available(req[p].prizes, Clock[req[p].heute].day) = {}
    /\ Respond(p, "InternalError")
    /\ UNCHANGED <<now, calendar_active, users, teilnehmer, gewinner, preise,
                   user_rewards, qr_codes, tuerchen_status, requests,
                   is_error, call, rewards_schema, kalender_status>>

\* gewonnener_preis = reduce_prize(prizes, heute.day): nothing is available
OpenDrawNone(p) ==
    /\ pc[p] = "draw"
    /\ Available(req[p].prizes, Clock[req[p].heute].day) = {}
    /\ Respond(p, "NoPrizeLeft")
    /\ UNCHANGED <<now, calendar_active, users, teilnehmer, gewinner, preise,
                   user_rewards, qr_codes, tuerchen_status, requests,
                   is_error, call, rewards_schema, kalender_status>>

\* gewonnener_preis = reduce_prize(prizes, heute.day): position i is selected,
\* decremented, and the thread's list is saved
OpenDraw(p, i) ==
    /\ pc[p] = "draw"
    /\ i \in Available(req[p].prizes, Clock[req[p].heute].day)
    /\ preise' = Reduced(req[p].prizes, i)
    /\ req' = [req EXCEPT ![p].prizes = Reduced(req[p].prizes, i),
                          ![p].preis = Reduced(req[p].prizes, i)[i]]
    /\ pc' = [pc EXCEPT ![p] = "win"]
    /\ UNCHANGED <<now, calendar_active, users, teilnehmer, gewinner, user_rewards,
                   qr_codes, tuerchen_status, requests,
                   is_error, call, rewards_schema, kalender_status>>

\* speichere_gewinner(user_id, display_name, tag, preis_name, jahr, sponsor)
OpenWin(p) ==
    /\ pc[p] = "win"
    /\ gewinner' = speichere_gewinner(gewinner, req[p].user, DisplayName(req[p].user),
                                      req[p].tag, req[p].preis.name, Jahr,
                                      Strip(req[p].preis.sponsor))
    /\ pc' = [pc EXCEPT ![p] = "qr"]
    /\ UNCHANGED <<now, calendar_active, users, teilnehmer, preise, user_rewards,
                   qr_codes, tuerchen_status, req, requests,
                   is_error, call, rewards_schema, kalender_status>>

\* the QR image is made and saved; an error of qrcode or of img.save is not
\* caught and ends the request
OpenQr(p, saved) ==
    /\ pc[p] = "qr"
    /\ IF saved
       THEN /\ qr_codes' = qr_codes \cup {QrFilename(req[p].user, req[p].tag)}
            /\ pc' = [pc EXCEPT ![p] = "reward"]
            /\ UNCHANGED req
       ELSE /\ Respond(p, "InternalError")
            /\ UNCHANGED qr_codes
    /\ UNCHANGED <<now, calendar_active, users, teilnehmer, gewinner, preise,
                   user_rewards, tuerchen_status, requests,
                   is_error, call, rewards_schema, kalender_status>>

\* record_user_reward: does the INSERT succeed (the foreign key needs the
\* user's row, the statement has to fit the table; db_ok is any other
\* sqlite3.DatabaseError not happening)
RewardStored(user_id, prize_name, db_ok) ==
    /\ user_id # 0 /\ prize_name # <<>>
    /\ db_ok
    /\ user_id \in users
    /\ InsertFits(rewards_schema)

\* the response after record_user_reward(...): its outcome is not looked at
ResultAfterReward(stored) == "Won"

\* record_user_reward(...) and the congratulation page
OpenReward(p, db_ok) ==
    /\ pc[p] = "reward"
    /\ LET stored == RewardStored(req[p].user, req[p].preis.name, db_ok) IN
       /\ user_rewards' =
              IF stored
              THEN UpsertReward(user_rewards,
                                RewardRow(req[p].user, req[p].tag,
                                          req[p].preis.name, req[p].preis.sponsor,
                                          req[p].preis.sponsor_link,
                                          QrFilename(req[p].user, req[p].tag),
                                          now))
              ELSE user_rewards
       /\ pc' = [pc EXCEPT ![p] = "done"]
       /\ req' = [req EXCEPT ![p] =
                     Responded(req[p].user, req[p].tag,
                               IF stored THEN "stored" ELSE "failed",
                               ResultAfterReward(stored))]
    /\ UNCHANGED <<now, calendar_active, users, teilnehmer, gewinner, preise,
                   qr_codes, tuerchen_status, requests,
                   is_error, call, rewards_schema, kalender_status>>

\* time passes
Tick ==
    /\ now < Len(Clock)
    /\ now' = now + 1
    /\ UNCHANGED <<calendar_active, users, teilnehmer, gewinner, preise, user_rewards,
                   qr_codes, tuerchen_status, pc, req, requests,
                   is_error, call, rewards_schema, kalender_status>>

(***************************************************************************)
(* The admin page (POST /admin): one action per form action.  Every call   *)
(* starts with prizes = load_prizes() and ends with load_prizes().         *)
(***************************************************************************)
RequestGuard ==
    /\ requests < MaxRequests
    /\ requests' = requests + 1

\* action == 'update_status': set_calendar_active(new_status)
AdminUpdateStatus(new_status) ==
    /\ RequestGuard
    /\ calendar_active' = set_calendar_active(new_status)
    /\ kalender_status' = save_calendar_status(set_calendar_active(new_status))
    /\ preise' = FileAfterLoad(preise)
    /\ is_error' = FALSE
    /\ UNCHANGED <<now, users, teilnehmer, gewinner, user_rewards, qr_codes,
                   tuerchen_status, pc, req, call, rewards_schema>>

\* cleanup_user_qr_codes: the directory without the rewards' files
cleanup_user_qr_codes(directory, rewardSet) ==
    directory \ {r.qr_filename : r \in {x \in rewardSet : x.qr_filename # <<>>}}

\* action == 'delete_user': delete_user_and_release_rewards(target_user_id)
AdminDeleteUser(user_id) ==
    /\ RequestGuard
    /\ user_id \in users
    /\ LET rewards == {r \in user_rewards : r.user_id = user_id} IN
       /\ users' = users \ {user_id}
       /\ user_rewards' = user_rewards \ rewards
       /\ preise' = FileAfterLoad(
                        release_rewards_for_user(FileAfterLoad(preise), SeqOf(rewards)))
       /\ qr_codes' = cleanup_user_qr_codes(qr_codes, rewards)
       /\ gewinner' = remove_user_from_winners_file(gewinner, user_id)
    /\ is_error' = FALSE
    /\ UNCHANGED <<now, calendar_active, teilnehmer, tuerchen_status, pc, req,
                   call, rewards_schema, kalender_status>>

\* action == 'reset_teilnehmer'
AdminResetTeilnehmer ==
    /\ RequestGuard
    /\ teilnehmer' = <<>>
    /\ preise' = FileAfterLoad(preise)
    /\ is_error' = FALSE
    /\ UNCHANGED <<now, calendar_active, users, gewinner, user_rewards, qr_codes,
                   tuerchen_status, pc, req, call, rewards_schema,
                   kalender_status>>

\* action == 'reset_gewinner'
AdminResetGewinner ==
    /\ RequestGuard
    /\ gewinner' = <<>>
    /\ preise' = FileAfterLoad(preise)
    /\ is_error' = FALSE
    /\ UNCHANGED <<now, calendar_active, users, teilnehmer, user_rewards, qr_codes,
                   tuerchen_status, pc, req, call, rewards_schema,
                   kalender_status>>

\* action == 'reset_qr_codes'
AdminResetQrCodes ==
    /\ RequestGuard
    /\ qr_codes' = {}
    /\ preise' = FileAfterLoad(preise)
    /\ is_error' = FALSE
    /\ UNCHANGED <<now, calendar_active, users, teilnehmer, gewinner, user_rewards,
                   tuerchen_status, pc, req, call, rewards_schema,
                   kalender_status>>

\* the default action 'update_prizes': parse_prize_configuration, save_prizes
AdminUpdatePrizes(prize_data) ==
    /\ RequestGuard
    /\ LET parsed == parse_prize_configuration(prize_data) IN
       /\ preise' = IF parsed.ok THEN FileAfterLoad(parsed.prizes)
                    ELSE FileAfterLoad(preise)
       /\ is_error' = ~parsed.ok
    /\ UNCHANGED <<now, calendar_active, users, teilnehmer, gewinner, user_rewards,
                   qr_codes, tuerchen_status, pc, req, call, rewards_schema,
                   kalender_status>>

(***************************************************************************)
(* The start page (GET /) rebuilds tuerchen_status in two statements,      *)
(* clear() and update(...); another thread can run between them.           *)
(***************************************************************************)
StartseiteClear ==
    /\ RequestGuard
    /\ tuerchen_status # {}
    /\ preise' = FileAfterLoad(preise)
    /\ tuerchen_status' = {}
    /\ UNCHANGED <<now, calendar_active, users, teilnehmer, gewinner, user_rewards,
                   qr_codes, pc, req,
                   is_error, call, rewards_schema, kalender_status>>

StartseiteUpdate ==
    /\ tuerchen_status = {}
    /\ tuerchen_status' = Doors
    /\ UNCHANGED <<now, calendar_active, users, teilnehmer, gewinner, preise,
                   user_rewards, qr_codes, pc, req, requests,
                   is_error, call, rewards_schema, kalender_status>>

(***************************************************************************)
(* Specifications.                                                         *)
(***************************************************************************)
\* the steps of the request threads
OpenStep ==
    \E p \in Procs :
        \/ \E user_id \in UserIds, tag \in Tags : OpenGate(p, user_id, tag)
        \/ OpenCheck(p)
        \/ OpenRecord(p)
        \/ OpenStats(p)
        \/ \E below \in BOOLEAN : OpenOdds(p, below)
        \/ OpenDrawNone(p)
        \/ \E i \in 1..Len(req[p].prizes) : OpenDraw(p, i)
        \/ OpenWin(p)
        \/ \E saved \in BOOLEAN : OpenQr(p, saved)
        \/ \E db_ok \in BOOLEAN : OpenReward(p, db_ok)

\* the admin's form actions
AdminStep ==
    \/ \E b \in BOOLEAN : AdminUpdateStatus(b)
    \/ \E user_id \in UserIds : AdminDeleteUser(user_id)
    \/ AdminResetTeilnehmer
    \/ AdminResetGewinner
    \/ AdminResetQrCodes
    \/ \E prize_data \in ConfigTexts : AdminUpdatePrizes(prize_data)

Next ==
    \/ OpenStep
    \/ AdminStep
    \/ StartseiteClear
    \/ StartseiteUpdate
    \/ Tick

\* every operation
Spec == Init /\ [][Next]_vars

\* door openings only: no admin action, no start page
NextDoors ==
    \/ OpenStep
    \/ Tick

SpecDoors == Init /\ [][NextDoors]_vars

\* the admin page only
NextAdmin ==
    \/ AdminStep
    \/ Tick

SpecAdmin == Init /\ [][NextAdmin]_vars

(***************************************************************************)
(* gewinnchance_ermitteln called directly, for every day of a month, every *)
(* number of remaining prizes and several winner ledgers.                  *)
(***************************************************************************)
\* heutiges_datum.day
MonthDays == 1..31

\* the verbleibende_preise values handed in
PrizeCounts == (0 - 1)..MaxPrizes

\* a line of gewinner.txt of an earlier year
EarlierWin(user_id) ==
    [uid |-> user_id, name |-> DisplayName(user_id), tag |-> 3,
     preis |-> <<"W">>, sponsor |-> <<>>, jahr |-> Jahr - 1]

\* the contents of gewinner.txt the calls run against
WinnerLedgers ==
    { <<>>, <<EarlierWin(1)>>, <<EarlierWin(11)>>, <<EarlierWin(11), EarlierWin(1)>> }

InitOdds ==
    /\ now = 1
    /\ calendar_active = TRUE
    /\ users = UserIds
    /\ teilnehmer = <<>>
    /\ gewinner \in WinnerLedgers
    /\ preise = <<>>
    /\ user_rewards = {}
    /\ qr_codes = {}
    /\ tuerchen_status = Doors
    /\ pc = [p \in Procs |-> "idle"]
    /\ req = [p \in Procs |-> IdleReq]
    /\ requests = 0
    /\ is_error = FALSE
    /\ call = NoCall
    /\ rewards_schema = init_user_db(NoTable)
    /\ kalender_status = NoStatusFile

\* gewinnchance_ermitteln(user_identifier, heutiges_datum, verbleibende_preise)
CallOdds(user_identifier, day, verbleibende_preise) ==
    /\ call' = [fn |-> "gewinnchance_ermitteln", user |-> user_identifier,
                day |-> day, verbleibende_preise |-> verbleibende_preise,
                result |-> gewinnchance_ermitteln(gewinner, user_identifier, day,
                                                  verbleibende_preise)]
    /\ UNCHANGED <<now, calendar_active, users, teilnehmer, gewinner, preise,
                   user_rewards, qr_codes, tuerchen_status, pc, req, requests,
                   is_error, rewards_schema, kalender_status>>

NextOdds ==
    \E user_identifier \in UserIds, day \in MonthDays,
       verbleibende_preise \in PrizeCounts :
        CallOdds(user_identifier, day, verbleibende_preise)

SpecOdds == InitOdds /\ [][NextOdds]_vars


(***************************************************************************)
(* Properties.                                                             *)
(***************************************************************************)
\* the records of teilnehmer.txt for (user_id, tag)
ParticipationCount(user_id, tag) ==
    Cardinality({i \in 1..Len(teilnehmer) :
                    teilnehmer[i].uid = user_id /\ teilnehmer[i].tag = tag})

\* the records of gewinner.txt for (user_id, tag)
WinCount(user_id, tag) ==
    Cardinality({i \in 1..Len(gewinner) :
                    gewinner[i].uid = user_id /\ gewinner[i].tag = tag})

\* the steps of a request that follow speichere_teilnehmer
AfterRecord == {"stats", "odds", "draw", "win", "qr", "reward"}

\* no thread is inside a request
Quiescent == \A p \in Procs : IsFree(p)

\* C1: for every (user, day), the door openings that pass the gate, also
\* when their steps interleave, leave exactly one participation record and
\* at most one win record for (user, day): a request past its participation
\* write finds exactly one record of its (user, day), and no (user, day)
\* ever has two participation records or two win records.
C1_ExactlyOnceParticipation ==
    /\ \A p \in Procs :
           pc[p] \in AfterRecord => ParticipationCount(req[p].user, req[p].tag) = 1
    /\ \A user_id \in UserIds, tag \in Tags :
           /\ ParticipationCount(user_id, tag) <= 1
           /\ WinCount(user_id, tag) <= 1

\* C2: a request whose prize was drawn and whose record_user_reward did not
\* store the reward responds with InternalError, never with the win page.
C2_RewardFailureIsInternalError ==
    \A p \in Procs :
        (pc[p] = "done" /\ req[p].recorded = "failed")
            => req[p].result = "InternalError"

\* the names of the persisted pool
PoolNames == {preise[i].name : i \in 1..Len(preise)}

\* awarded = total - remaining of the persisted entries called name
AwardedOf(name) ==
    LET Entries == SelectSeq(preise, LAMBDA e : e.name = name)
    IN SumTotal(Entries) - SumRemaining(Entries)

\* the win records that reference the prize called name
WinsOf(name) ==
    Cardinality({i \in 1..Len(gewinner) : gewinner[i].preis = name})

C4_RemainingWithinTotal ==
    \A i \in 1..Len(preise) :
        /\ 0 <= preise[i].remaining
        /\ preise[i].remaining <= preise[i].total

\* C4 witness: a draw has taken an entry of the persisted pool down to 0
\* and its win is logged.
C4_Witness ==
    /\ gewinner # <<>>
    /\ \E i \in 1..Len(preise) : preise[i].remaining = 0 /\ preise[i].total > 0

\* C5: the draws of concurrent door openings of different users are
\* serialized: as long as every (user, day) has opened at most once, the
\* number of wins recorded never exceeds the number of units taken from the
\* persisted pool (so one unit left yields at most one win).
C5_WinsWithinUnitsTaken ==
    (\A user_id \in UserIds, tag \in Tags : ParticipationCount(user_id, tag) <= 1)
        => Len(gewinner) <= SumTotal(preise) - SumRemaining(preise)

\* thread p responds to its draw step in this step, or moves on from it
LeavesDraw(p) == pc[p] = "draw" /\ pc'[p] # "draw"

\* only position 1 of the list has stock
OnlyReservedLeft(prizes) ==
    /\ prizes # <<>>
    /\ prizes[1].remaining > 0
    /\ \A i \in 2..Len(prizes) : prizes[i].remaining = 0

\* C6: reduce_prize never selects or decrements the pool's entry 0 unless
\* the day is 24; on a day in 1..23 with stock in entry 0 only, it returns
\* None and the pool stays as it is.
C6_ReservedPrizeRule ==
    [][\A p \in Procs :
          (LeavesDraw(p) /\ Clock[req[p].heute].day # HauptpreisTag) =>
              /\ pc'[p] = "win" =>
                     /\ req'[p].prizes[1] = req[p].prizes[1]
                     /\ preise'[1] = req[p].prizes[1]
                     /\ \E i \in 2..Len(req[p].prizes) :
                            /\ req'[p].preis.name = req[p].prizes[i].name
                            /\ req'[p].prizes[i].remaining
                                   = req[p].prizes[i].remaining - 1
              /\ (Clock[req[p].heute].day \in 1..(HauptpreisTag - 1)
                      /\ OnlyReservedLeft(req[p].prizes)) =>
                     /\ pc'[p] = "done"
                     /\ req'[p].result = "NoPrizeLeft"
                     /\ preise' = preise]_vars

\* C6 witness: on day 23 a draw has answered None while only entry 0 of the
\* pool has stock.
C6_Witness ==
    /\ Clock[now].day = 23
    /\ OnlyReservedLeft(preise)
    /\ \E p \in Procs : pc[p] = "done" /\ req[p].result = "NoPrizeLeft"

\* thread p takes a new request through the gate in this step
GateStep(p) ==
    /\ IsFree(p)
    /\ requests' = requests + 1
    /\ <<pc'[p], req'[p]>> # <<pc[p], req[p]>>

\* teilnehmer.txt holds a record of (user_id, tag)
RecordExists(user_id, tag) == ParticipationCount(user_id, tag) >= 1

\* C7: in a door opening the participation record of (user, day) is written
\* before the odds are evaluated and before a prize is drawn: every request
\* that has reached the pool statistics, the odds, the draw or a later step
\* has its record in teilnehmer.txt.
C7_ParticipationBeforeDraw ==
    \A p \in Procs : pc[p] \in AfterRecord => RecordExists(req[p].user, req[p].tag)

\* C7 witness: a prize has been drawn and decremented for a request whose
\* participation record is in the log.
C7_Witness ==
    \E p \in Procs :
        /\ pc[p] = "win"
        /\ RecordExists(req[p].user, req[p].tag)
        /\ SumRemaining(preise) < SumTotal(preise)

\* C8, for the requests that pass the calendar gate: once teilnehmer.txt
\* holds a record of (user, day), every request for (user, day) that passes
\* the calendar gate and comes to the participation check is answered
\* AlreadyOpened and changes none of the ledgers (no admin reset happens).
C8_PointOfNoReturn ==
    [][\A p \in Procs :
          (pc[p] = "check" /\ pc'[p] # "check"
               /\ RecordExists(req[p].user, req[p].tag)) =>
              /\ pc'[p] = "done"
              /\ req'[p].result = "AlreadyOpened"
              /\ UNCHANGED ledgers]_vars

\* C8 witness: a request has been answered AlreadyOpened after an earlier
\* request for the same (user, day) crashed behind its participation record.
C8_Witness ==
    \E p, q \in Procs :
        /\ pc[p] = "done" /\ req[p].result = "AlreadyOpened"
        /\ pc[q] = "done" /\ req[q].result = "InternalError"
        /\ req[q].user = req[p].user /\ req[q].tag = req[p].tag
        /\ ParticipationCount(req[p].user, req[p].tag) = 1

\* C8 as stated: once teilnehmer.txt holds a record of (user, day), no later
\* request of that user for that day gets any answer but AlreadyOpened.
C8_AlwaysAlreadyOpened ==
    [][\A p \in Procs :
          (GateStep(p) /\ req'[p].user \in users
               /\ RecordExists(req'[p].user, req'[p].tag)) =>
              ~(pc'[p] = "done" /\ req'[p].result # "AlreadyOpened")]_vars

\* C9: a request of an existing user passes the gate if and only if the
\* calendar is active, the month is December and the day of the month equals
\* the requested door; a thread past the gate always serves the door of the
\* day on which it passed.
C9_CalendarGate ==
    [][\A p \in Procs :
          (GateStep(p) /\ req'[p].user \in users) =>
              /\ (pc'[p] = "check") <=>
                     (/\ calendar_active
                      /\ Clock[now].month = Dezember
                      /\ Clock[now].day = req'[p].tag)
              /\ pc'[p] # "done" =>
                     (pc'[p] = "check" /\ Clock[req'[p].heute].day = req'[p].tag)]_vars

\* C9 witness: one request has passed the gate while another was turned
\* away because its door is not today's.
C9_Witness ==
    \E p, q \in Procs :
        /\ pc[p] = "check"
        /\ pc[q] = "done" /\ req[q].result = "NotYetAvailable"

\* C10: a request rejected at the gate (calendar inactive, wrong day or
\* month) changes neither teilnehmer.txt, gewinner.txt, the pool,
\* user_rewards nor qr_codes.
C10_GateRejectionWritesNothing ==
    [][\A p \in Procs :
          (GateStep(p) /\ pc'[p] = "done"
               /\ req'[p].result \in {"CalendarInactive", "NotYetAvailable"}) =>
              UNCHANGED <<ledgers, tuerchen_status, calendar_active, users>>]_vars

\* C10 witness: a request was rejected because the calendar is switched off.
C10_Witness ==
    \E p \in Procs :
        /\ pc[p] = "done" /\ req[p].result = "CalendarInactive"
        /\ ~calendar_active

\* a <= b for the fractions a and b (denominators positive)
FracLeq(a, b) == a.num * b.den <= b.num * a.den

\* the user has a record in gewinner.txt
HasWinRecord(user_id) == \E i \in 1..Len(gewinner) : gewinner[i].uid = user_id

\* the direct call of gewinnchance_ermitteln has returned
OddsCalled == call.fn = "gewinnchance_ermitteln"

OddsFor(day, verbleibende_preise) ==
    gewinnchance_ermitteln(gewinner, call.user, day, verbleibende_preise)

\* the call's result is 0 when the remaining days or prizes are <= 0, and
\* never falls when the remaining prizes grow
OddsZeroAndRisingInPrizes ==
    /\ (TageBasis - call.day <= 0 \/ call.verbleibende_preise <= 0) =>
           call.result.num = 0
    /\ \A r \in PrizeCounts :
           r >= call.verbleibende_preise =>
               FracLeq(call.result, OddsFor(call.day, r))

\* C14 as stated: the odds are non-increasing in the remaining days
\* (25 - day) for fixed remaining prizes, non-decreasing in the remaining
\* prizes for fixed remaining days, and 0 when either is <= 0.
C14_OddsMonotone ==
    OddsCalled =>
        /\ OddsZeroAndRisingInPrizes
        /\ \A d \in MonthDays :
               TageBasis - d >= TageBasis - call.day =>
                   FracLeq(OddsFor(d, call.verbleibende_preise), call.result)

\* C14, with the remaining days at least 1: the odds are non-increasing in
\* the remaining days as long as these are positive, non-decreasing in the
\* remaining prizes, and 0 when either is <= 0.
C14_OddsMonotoneOverPositiveDays ==
    OddsCalled =>
        /\ OddsZeroAndRisingInPrizes
        /\ \A d \in MonthDays :
               (TageBasis - call.day >= 1 /\ TageBasis - d >= TageBasis - call.day) =>
                   FracLeq(OddsFor(d, call.verbleibende_preise), call.result)

\* C14 witness: a call with positive odds, next to which one more remaining
\* day gives strictly less and one more prize strictly more.
C14_Witness ==
    /\ OddsCalled
    /\ call.result.num > 0
    /\ call.day > 1 /\ call.verbleibende_preise < MaxPrizes
    /\ ~FracLeq(call.result, OddsFor(call.day - 1, call.verbleibende_preise))
    /\ ~FracLeq(OddsFor(call.day, call.verbleibende_preise + 1), call.result)

\* C15: the value gewinnchance_ermitteln returns lies in [0, 1].
C15_OddsWithinUnitInterval ==
    OddsCalled =>
        /\ call.result.den > 0
        /\ 0 <= call.result.num
        /\ call.result.num <= call.result.den

\* the day on which the request of thread p passed the gate
DayOf(p) == Clock[req[p].heute].day

\* user_rewards holds a row of (user_id, tag)
RewardExists(user_id, tag) ==
    \E r \in user_rewards : r.user_id = user_id /\ r.door = tag

\* C11: when reduce_prize returns None after a positive odds check, the
\* request is answered with the no-prize-left page, not with an error, and
\* this step writes no win record, no reward row, no QR file and leaves the
\* pool as it is; a request never leaves the draw with another response.
C11_FailedDrawIsLoss ==
    [][\A p \in Procs :
          LeavesDraw(p) =>
              /\ Available(req[p].prizes, DayOf(p)) = {} =>
                     /\ pc'[p] = "done"
                     /\ req'[p].result = "NoPrizeLeft"
                     /\ UNCHANGED <<gewinner, user_rewards, preise, qr_codes>>
              /\ pc'[p] = "done" => req'[p].result = "NoPrizeLeft"]_vars

\* C11 witness: one request has won the last unit that may be drawn today;
\* a request of the other user, which read the pool after that, passed the
\* odds check and was answered NoPrizeLeft, without a win record or a reward
\* row.
C11_Witness ==
    \E p \in Procs :
        /\ pc[p] = "done" /\ req[p].result = "NoPrizeLeft"
        /\ Len(gewinner) = 1
        /\ WinCount(req[p].user, req[p].tag) = 0
        /\ ~RewardExists(req[p].user, req[p].tag)
        /\ SumRemaining(preise) > 0

\* C12: when making or saving the QR image fails after the win was logged,
\* the request still goes on to record the reward and to answer Won: the QR
\* step never ends a request with an error.
C12_ArtifactFailureKeepsWin ==
    [][\A p \in Procs :
          (pc[p] = "qr" /\ pc'[p] # "qr") =>
              \/ pc'[p] = "reward"
              \/ pc'[p] = "done" /\ req'[p].result = "Won"]_vars

\* C16: a request goes from the odds to the draw only in an hour of 12..21
\* and with positive odds, and a prize is drawn and a win logged only behind
\* that step; in any other hour the request is answered Lost, the pool and
\* gewinner.txt stay as they are, and its participation record is in
\* teilnehmer.txt.
C16_TimeOfDayGate ==
    [][\A p \in Procs :
          /\ (pc[p] = "odds" /\ pc'[p] # "odds") =>
                 /\ pc'[p] = "draw" =>
                        /\ Clock[now].hour \in 12..21
                        /\ gewinnchance_ermitteln(gewinner, req[p].user, DayOf(p),
                               req[p].verbleibende_preise).num > 0
                 /\ Clock[now].hour \notin 12..21 =>
                        /\ pc'[p] = "done"
                        /\ req'[p].result = "Lost"
                        /\ UNCHANGED <<preise, gewinner>>
                        /\ RecordExists(req[p].user, req[p].tag)
          /\ (pc'[p] = "draw" /\ pc[p] # "draw") => pc[p] = "odds"
          /\ (pc'[p] = "win" /\ pc[p] # "win") => pc[p] = "draw"
          /\ (gewinner' # gewinner \/ preise' # preise) =>
                 \E q \in Procs : pc[q] \in {"stats", "draw", "win"}]_vars

\* C16 witness: at 11 o'clock on 23 December a request with a drawable
\* prize in the pool was answered Lost; its participation is recorded and
\* nothing was drawn.
C16_Witness ==
    \E p \in Procs :
        /\ Clock[now] = [month |-> 12, day |-> 23, hour |-> 11]
        /\ pc[p] = "done" /\ req[p].result = "Lost"
        /\ RecordExists(req[p].user, req[p].tag)
        /\ preise = InitialPool
        /\ gewinner = <<>>

\* C17: a user with records in gewinner.txt passes the gate and the
\* participation check under the same conditions as any user (calendar
\* active, today's door, no participation yet), and at the odds their chance
\* is positive exactly when it would be without their win records.
C17_WinNeverBlocks ==
    [][\A p \in Procs :
          /\ (GateStep(p) /\ req'[p].user \in users) =>
                 ((pc'[p] = "check") <=>
                      (calendar_active /\ DateMatches(Clock[now], req'[p].tag)))
          /\ (pc[p] = "check" /\ pc'[p] # "check") =>
                 ((pc'[p] = "record") <=> ~RecordExists(req[p].user, req[p].tag))
          /\ pc[p] = "odds" =>
                 ((gewinnchance_ermitteln(gewinner, req[p].user, DayOf(p),
                       req[p].verbleibende_preise).num > 0)
                  <=> (gewinnchance_ermitteln(<<>>, req[p].user, DayOf(p),
                           req[p].verbleibende_preise).num > 0))]_vars

\* C17 witness: a user with a win record has passed the gate, the
\* participation check and the odds check of a later door.
C17_Witness ==
    \E p \in Procs :
        /\ pc[p] = "draw"
        /\ HasWinRecord(req[p].user)
        /\ WinCount(req[p].user, req[p].tag) = 0

\* C18: a request that finds the pool's remaining sum <= 0 is answered
\* PoolExhausted straight from the pool statistics (no odds, no draw), with
\* its participation record written and the pool and gewinner.txt left as
\* they are; PoolExhausted is answered in no other case.
C18_PoolExhausted ==
    [][\A p \in Procs :
          (pc[p] = "stats" /\ pc'[p] # "stats") =>
              /\ SumRemaining(load_prizes(preise)) <= 0 =>
                     /\ pc'[p] = "done"
                     /\ req'[p].result = "PoolExhausted"
                     /\ UNCHANGED <<preise, gewinner>>
                     /\ RecordExists(req[p].user, req[p].tag)
              /\ (pc'[p] = "done" /\ req'[p].result = "PoolExhausted") =>
                     SumRemaining(load_prizes(preise)) <= 0]_vars

\* C18 witness: a request was answered PoolExhausted; its participation is
\* recorded and the pool is the sold-out pool it found.
C18_Witness ==
    \E p \in Procs :
        /\ pc[p] = "done" /\ req[p].result = "PoolExhausted"
        /\ RecordExists(req[p].user, req[p].tag)
        /\ preise = SoldOutPool
        /\ gewinner = <<>>

\* C19: the step that answers Lost (hour not allowed or random value not
\* below the odds) changes none of teilnehmer.txt, gewinner.txt, the pool,
\* user_rewards and qr_codes; before it, reading the pool statistics leaves
\* the pool that load_prizes returns as it is and writes none of the other
\* ledgers.
C19_LossWritesNothing ==
    [][\A p \in Procs :
          /\ (pc[p] = "odds" /\ pc'[p] = "done") =>
                 /\ req'[p].result = "Lost"
                 /\ UNCHANGED ledgers
          /\ (pc[p] = "stats" /\ pc'[p] # "stats") =>
                 /\ load_prizes(preise') = load_prizes(preise)
                 /\ UNCHANGED <<teilnehmer, gewinner, user_rewards, qr_codes>>]_vars

\* C19 witness: in an allowed hour a request was answered Lost; only its
\* participation record was written.
C19_Witness ==
    \E p \in Procs :
        /\ Clock[now].hour \in gewinn_zeiten
        /\ pc[p] = "done" /\ req[p].result = "Lost"
        /\ Len(teilnehmer) = 1
        /\ preise = InitialPool
        /\ gewinner = <<>> /\ user_rewards = {} /\ qr_codes = {}

\* C20: a POST of a prize text with an error (a line without '=', without
\* name, without count, with a count that is no number, or no entry with a
\* positive total), also behind valid lines, is answered with is_error and
\* leaves the pool as it was: an existing preise.json is unchanged, and a
\* missing one still loads as the default pool.
C20_ConfigAllOrNothing ==
    [][\A prize_data \in BadConfigTexts :
          AdminUpdatePrizes(prize_data) =>
              /\ is_error'
              /\ load_prizes(preise') = load_prizes(preise)
              /\ preise # <<>> => preise' = preise]_vars

\* C20 witness: the last POST was rejected and preise.json still holds the
\* pool it held at the start.
C20_Witness ==
    /\ is_error
    /\ preise = InitialPool

(***************************************************************************)
(* The prize text and the pool called directly: format_prize_lines and     *)
(* parse_prize_configuration one after the other, parse_prize_configuration *)
(* on texts of up to MaxLines lines, release_rewards_for_user on pools and *)
(* released rewards.  Each behaviour is one call.                          *)
(***************************************************************************)
\* the largest total of a prize that is formatted
MaxTotal == 10

\* the largest number of lines of a text that is parsed
MaxLines == 3

\* the sponsor links of the prizes that are formatted
SponsorLinks ==
    { <<>>,
      <<"h", "t", "t", "p", "s", ":", "/", "/", "x">>,
      <<"h", "t", "t", "p", ":", "/", "/", "x", "/", "(", "1", ")">> }

\* the prizes that are formatted: a name, a total, a stock within it, with
\* or without sponsor, with or without link
FormatEntries ==
    UNION { { PrizeEntry(name, total, remaining, sponsor, sponsor_link) :
                name \in { <<"H">>, <<"A", " ", "B">> },
                remaining \in {0, 1, total - 1, total},
                sponsor \in { <<>>, <<"S">> },
                sponsor_link \in SponsorLinks } : total \in 1..MaxTotal }

\* the pools that are formatted: one prize, or the main prize and one more
FormatPools ==
    { <<e>> : e \in FormatEntries }
        \cup { <<PrizeEntry(<<"H">>, 1, 1, <<>>, <<>>), e>> : e \in FormatEntries }

\* the lines the parsed texts are made of, each with what it is: blank,
\* malformed (no '=', no name, no count, a count that is no number), or
\* well-formed with the total and the remaining value written in it
ConfigLines ==
    << [text |-> <<"W", "=", "1">>, shape |-> "counts", total |-> 1, remaining |-> 1],
       [text |-> <<>>, shape |-> "blank"],
       [text |-> <<"H", "=", "x">>, shape |-> "malformed"],
       [text |-> <<"H">>, shape |-> "malformed"],
       [text |-> <<"=", "2">>, shape |-> "malformed"],
       [text |-> <<"H", "=">>, shape |-> "malformed"],
       [text |-> <<" ", "|", " ", "S", "=", "2">>, shape |-> "malformed"],
       [text |-> <<"W", "=", "0">>, shape |-> "counts", total |-> 0, remaining |-> 0],
       [text |-> <<"H", "=", "-", "1">>, shape |-> "counts",
        total |-> 0 - 1, remaining |-> 0 - 1],
       [text |-> <<"W", "=", "2", "/", "5">>, shape |-> "counts",
        total |-> 2, remaining |-> 5],
       [text |-> <<" ", "W", " ", "=", " ", "2", " ", "/", " ", "-", "1">>,
        shape |-> "counts", total |-> 2, remaining |-> 0 - 1],
       [text |-> <<"A", " ", "|", " ", "S", " ", "(", "h", "t", "t", "p", ":", "/",
                   "/", "x", ")", "=", "3", "/", "1">>,
        shape |-> "counts", total |-> 3, remaining |-> 1] >>

\* the texts that are parsed, as the positions in ConfigLines of their lines
ConfigPicks ==
    UNION { [1..n -> 1..Len(ConfigLines)] : n \in 0..MaxLines }

\* the text of a choice of lines
PickedText(picks) ==
    JoinLines([i \in 1..Len(picks) |-> ConfigLines[picks[i]].text])

InitPool ==
    /\ now = 1
    /\ calendar_active = TRUE
    /\ users = UserIds
    /\ teilnehmer = <<>>
    /\ gewinner = <<>>
    /\ preise = <<>>
    /\ user_rewards = {}
    /\ qr_codes = {}
    /\ tuerchen_status = Doors
    /\ pc = [p \in Procs |-> "idle"]
    /\ req = [p \in Procs |-> IdleReq]
    /\ requests = 0
    /\ is_error = FALSE
    /\ call = NoCall
    /\ rewards_schema = init_user_db(NoTable)
    /\ kalender_status = NoStatusFile

\* prize_text = format_prize_lines(prizes) shown in the admin's form, and
\* that text posted back: parse_prize_configuration(prize_text)
CallFormat(prizes) ==
    /\ call = NoCall
    /\ call' = [fn |-> "format_prize_lines", prizes |-> prizes,
                text |-> format_prize_lines(prizes),
                result |-> parse_prize_configuration(
                               SplitLines(format_prize_lines(prizes)))]
    /\ UNCHANGED <<now, calendar_active, users, teilnehmer, gewinner, preise,
                   user_rewards, qr_codes, tuerchen_status, pc, req, requests,
                   is_error, rewards_schema, kalender_status>>

\* parse_prize_configuration(prize_data)
CallParse(picks) ==
    /\ call = NoCall
    /\ call' = [fn |-> "parse_prize_configuration", picks |-> picks,
                result |-> parse_prize_configuration(SplitLines(PickedText(picks)))]
    /\ UNCHANGED <<now, calendar_active, users, teilnehmer, gewinner, preise,
                   user_rewards, qr_codes, tuerchen_status, pc, req, requests,
                   is_error, rewards_schema, kalender_status>>

\* the largest number of rewards released in one call
MaxReleased == 2

\* the contents of preise.json the rewards are released into: no file, the
\* same prize with and without sponsor, two prizes, the same prize twice
ReleaseFiles ==
    { <<>> }
        \cup { << PrizeEntry(<<"W">>, 2, r1, <<>>, <<>>),
                  PrizeEntry(<<"W">>, 2, r2, <<"S">>, <<>>) >> :
                    r1 \in 0..2, r2 \in 0..2 }
        \cup { << PrizeEntry(<<"H">>, 1, r1, <<>>, <<>>),
                  PrizeEntry(<<"W">>, 2, r2, <<"S">>, <<>>) >> :
                    r1 \in 0..1, r2 \in 0..2 }
        \cup { << PrizeEntry(<<"W">>, 1, 0, <<>>, <<>>),
                  PrizeEntry(<<"W">>, 1, 0, <<>>, <<>>) >> }

\* the rows of user_rewards that are released: prize_name and sponsor
ReleasedRewards ==
    { [prize_name |-> <<"W">>, sponsor |-> <<>>],
      [prize_name |-> <<"W">>, sponsor |-> <<"S">>],
      [prize_name |-> <<"W">>, sponsor |-> <<"T">>],
      [prize_name |-> <<" ", "w">>, sponsor |-> <<"s", " ">>],
      [prize_name |-> <<"X">>, sponsor |-> <<>>] }

\* the lists of rewards handed to release_rewards_for_user
ReleasedLists ==
    UNION { [1..n -> ReleasedRewards] : n \in 0..MaxReleased }

\* release_rewards_for_user(rewards) with preise.json holding file
CallRelease(file, rewards) ==
    /\ call = NoCall
    /\ call' = [fn |-> "release_rewards_for_user", file |-> file,
                rewards |-> rewards,
                result |-> release_rewards_for_user(file, rewards)]
    /\ UNCHANGED <<now, calendar_active, users, teilnehmer, gewinner, preise,
                   user_rewards, qr_codes, tuerchen_status, pc, req, requests,
                   is_error, rewards_schema, kalender_status>>

NextPool ==
    \/ \E prizes \in FormatPools : CallFormat(prizes)
    \/ \E picks \in ConfigPicks : CallParse(picks)
    \/ \E file \in ReleaseFiles, rewards \in ReleasedLists :
           CallRelease(file, rewards)

SpecPool == InitPool /\ [][NextPool]_vars

\* C21: configuration round trip: for any valid pool (names non-empty,
\* total > 0, 0 <= remaining <= total, sponsor and link optional) the text
\* format_prize_lines writes is parsed by parse_prize_configuration back into
\* the same pool: order, names, totals, remaining values, sponsors and links
C21_ConfigRoundTrip ==
    call.fn = "format_prize_lines" =>
        /\ call.result.ok
        /\ call.result.prizes = call.prizes

\* was parse_prize_configuration called
ParseCalled == call.fn = "parse_prize_configuration"

\* the lines of the parsed text, as written in ConfigLines
PickedLines(picks) == [i \in 1..Len(picks) |-> ConfigLines[picks[i]]]

\* no line of the text is malformed
AllWellFormed(picks) ==
    \A i \in 1..Len(picks) : ConfigLines[picks[i]].shape # "malformed"

\* the lines of the text in which a total above 0 is written
PositiveLines(picks) ==
    LET Positive(l) == l.shape = "counts" /\ l.total > 0
    IN SelectSeq(PickedLines(picks), Positive)

\* a line with a total below 0 is in the text
HasNegativeTotal(picks) ==
    \E i \in 1..Len(picks) :
        ConfigLines[picks[i]].shape = "counts" /\ ConfigLines[picks[i]].total < 0

\* a line with a total above 0 and a remaining value outside 0..total is in
\* the text
HasRemainingOutOfRange(picks) ==
    \E i \in 1..Len(picks) :
        LET l == ConfigLines[picks[i]] IN
        l.shape = "counts" /\ l.total > 0 /\ (l.remaining < 0 \/ l.remaining > l.total)

\* C22 as stated: parse_prize_configuration rejects every text that has a
\* line with a negative total
C22_NegativeTotalRejected ==
    ParseCalled /\ HasNegativeTotal(call.picks) => ~call.result.ok

\* C22 as amended: a line with a negative total is not rejected, it yields no
\* entry, like a line with total 0: a text without a malformed line is
\* accepted exactly if a line has a total above 0, the entries returned are
\* those lines in order, each with its total and with its remaining value
\* clamped into 0..total
C22_NegativeTotalSkipped ==
    ParseCalled /\ AllWellFormed(call.picks) =>
        LET expected == PositiveLines(call.picks) IN
        /\ call.result.ok <=> expected # <<>>
        /\ call.result.ok =>
            /\ Len(call.result.prizes) = Len(expected)
            /\ \A i \in 1..Len(expected) :
                /\ call.result.prizes[i].total = expected[i].total
                /\ call.result.prizes[i].remaining =
                       IF expected[i].remaining < 0 THEN 0
                       ELSE IF expected[i].remaining > expected[i].total
                            THEN expected[i].total
                            ELSE expected[i].remaining

\* C22 witness: a text with a negative total and with a remaining value out
\* of range was accepted
C22_Witness ==
    /\ ParseCalled
    /\ AllWellFormed(call.picks)
    /\ HasNegativeTotal(call.picks)
    /\ HasRemainingOutOfRange(call.picks)
    /\ call.result.ok

\* the positions of the malformed lines of the text
MalformedAt(picks) ==
    {i \in 1..Len(picks) : ConfigLines[picks[i]].shape = "malformed"}

\* C23: parse_prize_configuration reports a malformed line (no '=', no
\* name, no count, a count that is no number) with the 1-based number of the
\* first such line of the text, blank lines counted; without a malformed
\* line it fails exactly if no line has a total above 0; and every entry it
\* returns has a non-empty name, a total above 0 and 0 <= remaining <= total
C23_LineNumberedErrors ==
    ParseCalled =>
        LET bad == MalformedAt(call.picks) IN
        /\ bad # {} =>
            /\ ~call.result.ok
            /\ call.result.kind \in {"format", "name", "amount", "invalid"}
            /\ call.result.line \in bad
            /\ \A i \in bad : call.result.line <= i
        /\ bad = {} /\ PositiveLines(call.picks) = <<>> =>
            ~call.result.ok /\ call.result.kind = "empty"
        /\ bad = {} /\ PositiveLines(call.picks) # <<>> => call.result.ok
        /\ call.result.ok =>
            \A i \in 1..Len(call.result.prizes) :
                /\ call.result.prizes[i].name # <<>>
                /\ call.result.prizes[i].total > 0
                /\ call.result.prizes[i].remaining >= 0
                /\ call.result.prizes[i].remaining <= call.result.prizes[i].total

\* C23 witness: a malformed line behind an entry and a blank line was
\* reported as line 3
C23_Witness ==
    /\ ParseCalled
    /\ Len(call.picks) = 3
    /\ ConfigLines[call.picks[1]].shape = "counts"
    /\ ConfigLines[call.picks[2]].shape = "blank"
    /\ ConfigLines[call.picks[3]].shape = "malformed"
    /\ ~call.result.ok
    /\ call.result.line = 3

\* was release_rewards_for_user called
ReleaseCalled == call.fn = "release_rewards_for_user"

\* the pool preise.json stands for: its entries as they are stored, and the
\* default pool of load_prizes when there is no entry
StoredPool(file) == IF file = <<>> THEN default_prizes ELSE file

\* a prize name or a sponsor as it is compared: without the blanks around
\* it and in lower case
Compared(s) == Lower(Strip(s))

\* the positions of the pool entries with this name and this sponsor
EntriesOf(prizes, prize_name, sponsor) ==
    {i \in 1..Len(prizes) :
        /\ Compared(prizes[i].name) = Compared(prize_name)
        /\ Compared(prizes[i].sponsor) = Compared(sponsor)}

\* the pool entry a released reward goes back to: the (last) entry of its
\* name and sponsor, else the (last) entry of its name without sponsor, else
\* none (0)
EntryOfReward(prizes, reward) ==
    LET exact == EntriesOf(prizes, reward.prize_name, reward.sponsor)
        plain == EntriesOf(prizes, reward.prize_name, <<>>)
        Last(S) == CHOOSE i \in S : \A j \in S : j <= i
    IN IF exact # {} THEN Last(exact)
       ELSE IF plain # {} THEN Last(plain)
       ELSE 0

\* the number of released rewards that go back to entry i
ReleasedInto(prizes, rewards, i) ==
    Cardinality({k \in 1..Len(rewards) : EntryOfReward(prizes, rewards[k]) = i})

\* C24: release_rewards_for_user reverses draws only: the pool keeps its
\* entries, their order, names, totals, sponsors and links; the remaining
\* value of an entry rises by the number of released rewards that match it
\* (by name and sponsor, else by name with the sponsor-less entry), but not
\* above its total; a reward that matches no entry changes nothing, and no
\* remaining value is lowered
C24_ReleaseReversesDrawsOnly ==
    ReleaseCalled =>
        LET before == StoredPool(call.file)
            after == StoredPool(call.result)
        IN /\ Len(after) = Len(before)
           /\ \A i \in 1..Len(before) :
                /\ after[i].name = before[i].name
                /\ after[i].total = before[i].total
                /\ after[i].sponsor = before[i].sponsor
                /\ after[i].sponsor_link = before[i].sponsor_link
                /\ after[i].remaining >= before[i].remaining
                /\ after[i].remaining <= after[i].total
                /\ after[i].remaining =
                       LET raised == before[i].remaining
                                        + ReleasedInto(before, call.rewards, i)
                       IN IF raised > before[i].total THEN before[i].total
                          ELSE raised

\* C24 witness: of two released rewards of the same prize one was put back
\* and the other one met the total
C24_Witness ==
    /\ ReleaseCalled
    /\ Len(call.rewards) = 2
    /\ call.file # <<>>
    /\ \E i \in 1..Len(call.file) :
        /\ ReleasedInto(call.file, call.rewards, i) = 2
        /\ call.file[i].remaining = call.file[i].total - 1
        /\ call.result[i].remaining = call.result[i].total

\* the rows of user_rewards of a user, as the list the SELECT returns
RewardsOf(user_id) == SeqOf({r \in user_rewards : r.user_id = user_id})

\* the records of gewinner.txt of all users but one
WinsOfOthers(file, user_id) ==
    LET Other(rec) == rec.uid # user_id IN SelectSeq(file, Other)

C26_RemainingChangesOnlyByDraw ==
    [][LET before == StoredPool(preise)
           after == StoredPool(preise')
           drawn == \E p \in Procs : pc[p] = "draw" /\ pc'[p] = "win"
       IN /\ Len(after) = Len(before)
          /\ \A i \in 1..Len(before) :
               /\ after[i].remaining <= before[i].remaining
               /\ after[i].remaining < before[i].remaining =>
                    drawn /\ after[i].remaining = before[i].remaining - 1]_vars

\* C27: cross-store consistency: when no request is in progress, a
\* (user, day) has a win record in gewinner.txt exactly if user_rewards holds
\* a row for (user, day) with the same prize name, and each store holds the
\* win once
C27_CrossStoreConsistency ==
    Quiescent =>
        \A u \in UserIds, tag \in Tags :
            /\ WinCount(u, tag) <= 1
            /\ Cardinality({r \in user_rewards : r.user_id = u /\ r.door = tag}) <= 1
            /\ \A i \in 1..Len(gewinner) :
                 gewinner[i].uid = u /\ gewinner[i].tag = tag =>
                    \E r \in user_rewards :
                        /\ r.user_id = u /\ r.door = tag
                        /\ r.prize_name = gewinner[i].preis
            /\ \A r \in user_rewards :
                 r.user_id = u /\ r.door = tag =>
                    \E i \in 1..Len(gewinner) :
                        /\ gewinner[i].uid = u /\ gewinner[i].tag = tag
                        /\ gewinner[i].preis = r.prize_name

(***************************************************************************)
(* The reward store on a database that was created by an earlier version:  *)
(* record_user_reward and get_user_rewards called directly behind          *)
(* init_user_db, and door openings behind init_user_db.                    *)
(***************************************************************************)
\* user_rewards as an earlier version created it: without the columns added
\* later, or with them and without UNIQUE(user_id, door)
LegacySchemas ==
    { [columns |-> {"id", "user_id", "door", "prize_name"}, unique |-> FALSE],
      [columns |-> CurrentColumns, unique |-> FALSE] }

\* a row that was stored before init_user_db ran
OldReward ==
    [user_id |-> 1, door |-> 1, prize_name |-> <<"A">>, sponsor |-> <<>>,
     sponsor_link |-> <<>>, qr_filename |-> <<>>,
       created_at |-> 0]

\* record_user_reward: what it returns; no path of it has a return value
record_user_reward_returns(stored) == "None"

\* get_user_rewards(user_id): the rows returned, [] after a DatabaseError
get_user_rewards(table, schema, user_id) ==
    IF user_id = 0 \/ ~SelectFits(schema) THEN {}
    ELSE {r \in table : r.user_id = user_id}

InitRewards ==
    /\ now = 1
    /\ calendar_active = TRUE
    /\ users = UserIds
    /\ teilnehmer = <<>>
    /\ gewinner = <<>>
    /\ preise = <<>>
    /\ \E stored_schema \in LegacySchemas \cup {NoTable, CurrentSchema} :
        /\ rewards_schema = init_user_db(stored_schema)
        /\ user_rewards \in IF stored_schema = NoTable THEN {{}}
                            ELSE {{}, {OldReward}}
    /\ kalender_status = NoStatusFile
    /\ qr_codes = {}
    /\ tuerchen_status = Doors
    /\ pc = [p \in Procs |-> "idle"]
    /\ req = [p \in Procs |-> IdleReq]
    /\ requests = 0
    /\ is_error = FALSE
    /\ call = NoCall

\* recorded = record_user_reward(user_id, door, prize_name, sponsor,
\* sponsor_link, qr_filename), then get_user_rewards(user_id)
CallRecord(user_id, door, prize_name, sponsor, sponsor_link) ==
    /\ call = NoCall
    /\ LET stored == RewardStored(user_id, prize_name, TRUE) IN
       /\ user_rewards' =
              IF stored
              THEN UpsertReward(user_rewards,
                                RewardRow(user_id, door, prize_name, sponsor,
                                          sponsor_link, QrFilename(user_id, door),
                                          now))
              ELSE user_rewards
       /\ call' = [fn |-> "record_user_reward", user_id |-> user_id,
                   door |-> door, prize_name |-> prize_name,
                   sponsor |-> sponsor, sponsor_link |-> sponsor_link,
                   before |-> user_rewards, stored |-> stored,
                   recorded |-> record_user_reward_returns(stored),
                   rewards |-> get_user_rewards(user_rewards', rewards_schema,
                                                user_id)]
    /\ UNCHANGED <<now, calendar_active, users, teilnehmer, gewinner, preise,
                   qr_codes, tuerchen_status, pc, req, requests, is_error,
                   rewards_schema, kalender_status>>

NextRewards ==
    \E user_id \in UserIds \cup {0}, door \in {1, 2},
       prize_name \in { <<>>, <<"N">> }, sponsor \in { <<>>, <<"S">> },
       sponsor_link \in SponsorLinks :
        CallRecord(user_id, door, prize_name, sponsor, sponsor_link)

SpecRewards == InitRewards /\ [][NextRewards]_vars

\* C28: record_user_reward returns True when it stores a reward, and
\* get_user_rewards then returns the reward with its prize name, sponsor and
\* sponsor link; behind init_user_db on a table without the newer columns
\* the rewards stored before are still returned and a reward for a new door
\* of a user is recorded
C28_RecordReportsAndMigrates ==
    call.fn = "record_user_reward" =>
        /\ call.stored =>
            /\ call.recorded = "True"
            /\ \E r \in call.rewards :
                /\ r.door = call.door
                /\ r.prize_name = Strip(call.prize_name)
                /\ r.sponsor = Strip(call.sponsor)
                /\ r.sponsor_link = Strip(call.sponsor_link)
        /\ call.user_id \in users /\ call.prize_name # <<>> =>
            /\ call.stored
            /\ \A r \in call.before :
                 r.user_id = call.user_id /\ r.door # call.door =>
                    r \in call.rewards

\* the program started on a database of an earlier version: init_user_db has
\* run on a user_rewards table that lacks UNIQUE(user_id, door)
InitLegacy ==
    /\ now = 1
    /\ calendar_active = TRUE
    /\ users = UserIds
    /\ teilnehmer = <<>>
    /\ gewinner = <<>>
    /\ preise = InitialPool
    /\ user_rewards = {}
    /\ qr_codes = {}
    /\ tuerchen_status = Doors
    /\ pc = [p \in Procs |-> "idle"]
    /\ req = [p \in Procs |-> IdleReq]
    /\ requests = 0
    /\ is_error = FALSE
    /\ call = NoCall
    /\ \E stored_schema \in LegacySchemas :
        rewards_schema = init_user_db(stored_schema)
    /\ kalender_status = NoStatusFile

SpecLegacy == InitLegacy /\ [][NextDoors]_vars

\* C29: behind init_user_db on a user_rewards table created without the
\* uniqueness constraint on (user_id, door), a winning oeffne_tuerchen
\* returns the congratulation page and user_rewards then holds exactly one
\* row of the user for that door, with the prize won
C29_LegacyWinIsStored ==
    \A p \in Procs :
        pc[p] = "done" /\ req[p].result = "Won" =>
            /\ Cardinality({r \in user_rewards :
                               r.user_id = req[p].user /\ r.door = req[p].tag}) = 1
            /\ \E r \in user_rewards, i \in 1..Len(gewinner) :
                /\ r.user_id = req[p].user /\ r.door = req[p].tag
                /\ gewinner[i].uid = req[p].user /\ gewinner[i].tag = req[p].tag
                /\ r.prize_name = gewinner[i].preis

(***************************************************************************)
(* import_rewards_from_winners_file(connection, winners_file): the rewards *)
(* of the lines of gewinner.txt are stored in user_rewards.  advent.py     *)
(* holds no such function; it is modelled after                             *)
(* test_import_prefers_existing_user_by_display_name.                       *)
(***************************************************************************)
\* the largest number of lines of the winners file that is imported
MaxWinnerLines == 2

\* an id in a winner line that is the id of no user
UnknownUserId == 99

\* the lines of the winners file: the id of a user or of none, the display
\* name of a user or of none
ImportRecords ==
    { [uid |-> uid, name |-> name, tag |-> tag, preis |-> <<"W">>,
       sponsor |-> <<>>, jahr |-> Jahr] :
        uid \in UserIds \cup {UnknownUserId},
        name \in {DisplayName(u) : u \in UserIds} \cup { <<"X">> },
        tag \in {1, 2} }

\* the winners files that are imported
ImportFiles ==
    UNION { [1..n -> ImportRecords] : n \in 0..MaxWinnerLines }

\* faulty variant of ImportUserFor: only the id of the line is looked up
ImportUserFor_IdOnly(user_ids, rec) ==
    IF rec.uid \in user_ids THEN rec.uid ELSE 0

\* the user a winner line is attributed to: the user with the line's id,
\* else a user with the line's display name, else none (0)
ImportUserFor(user_ids, rec) ==
    IF rec.uid \in user_ids THEN rec.uid
    ELSE IF \E u \in user_ids : DisplayName(u) = rec.name
         THEN CHOOSE u \in user_ids : DisplayName(u) = rec.name
         ELSE 0

\* import_rewards_from_winners_file: the rows of user_rewards and the number
\* of rewards imported after the lines from position idx on
RECURSIVE import_rewards_from_winners_file(_, _, _, _, _)
import_rewards_from_winners_file(user_ids, table, file, idx, imported) ==
    IF idx > Len(file) THEN [rewards |-> table, imported |-> imported]
    ELSE LET user_id == ImportUserFor(user_ids, file[idx]) IN
         IF user_id = 0
         THEN import_rewards_from_winners_file(user_ids, table, file, idx + 1,
                                               imported)
         ELSE import_rewards_from_winners_file(
                  user_ids,
                  UpsertReward(table,
                               RewardRow(user_id, file[idx].tag, file[idx].preis,
                                         file[idx].sponsor, <<>>, <<>>, now)),
                  file, idx + 1, imported + 1)

\* imported = import_rewards_from_winners_file(connection, winners_file)
CallImport(file) ==
    /\ call = NoCall
    /\ LET done == import_rewards_from_winners_file(users, user_rewards, file, 1, 0)
       IN /\ user_rewards' = done.rewards
          /\ call' = [fn |-> "import_rewards_from_winners_file", file |-> file,
                      imported |-> done.imported]
    /\ UNCHANGED <<now, calendar_active, users, teilnehmer, gewinner, preise,
                   qr_codes, tuerchen_status, pc, req, requests, is_error,
                   rewards_schema, kalender_status>>

NextImport == \E file \in ImportFiles : CallImport(file)

SpecImport == InitPool /\ [][NextImport]_vars

\* has a user this display name
NameOfUser(name) == \E u \in users : DisplayName(u) = name

\* C30: the import attributes every winner line to an existing user: the
\* reward of a line whose id is no user's and whose display name is a
\* user's is stored for that user and the line's door, no reward is stored
\* under an id that is no user's, and the import returns the number of
\* rewards it imported (the lines it could attribute to a user)
C30_ImportMatchesByDisplayName ==
    call.fn = "import_rewards_from_winners_file" =>
        /\ \A i \in 1..Len(call.file) :
             call.file[i].uid \notin users /\ NameOfUser(call.file[i].name) =>
                \E r \in user_rewards :
                    /\ r.user_id \in users
                    /\ DisplayName(r.user_id) = call.file[i].name
                    /\ r.door = call.file[i].tag
        /\ \A r \in user_rewards : r.user_id \in users
        /\ call.imported =
               Cardinality({i \in 1..Len(call.file) :
                               \/ call.file[i].uid \in users
                               \/ NameOfUser(call.file[i].name)})

\* C30 witness: one line with an unknown id and the display name of user 11
\* was imported as one reward of user 11
C30_Witness ==
    /\ call.fn = "import_rewards_from_winners_file"
    /\ Len(call.file) = 1
    /\ call.file[1].uid = UnknownUserId
    /\ call.file[1].name = DisplayName(11)
    /\ call.imported = 1
    /\ \E r \in user_rewards : r.user_id = 11 /\ r.door = call.file[1].tag

(***************************************************************************)
(* migrate_placeholder_user_rewards(connection, mapping_file): the rewards *)
(* of placeholder users go to the real users the mapping file names.       *)
(* advent.py holds no such function; it is modelled after                  *)
(* test_placeholder_rewards_migration.                                     *)
(***************************************************************************)
\* the largest number of entries of the mapping file
MaxMappings == 2

\* the rows of user_rewards before the migration: rewards of the placeholder
\* user for two doors, a reward of a real user
MigrationRows ==
    { [user_id |-> UnknownUserId, door |-> 1, prize_name |-> <<"W">>,
       sponsor |-> <<>>, sponsor_link |-> <<>>, qr_filename |-> <<>>,
       created_at |-> 0],
      [user_id |-> UnknownUserId, door |-> 2, prize_name |-> <<"W">>,
       sponsor |-> <<>>, sponsor_link |-> <<>>, qr_filename |-> <<>>,
       created_at |-> 0],
      [user_id |-> 11, door |-> 3, prize_name |-> <<"H">>,
       sponsor |-> <<>>, sponsor_link |-> <<>>, qr_filename |-> <<>>,
       created_at |-> 0] }

\* the entries of the mapping file: winner_id is the placeholder user or a
\* user that is none, user_id a real user or the placeholder itself
MappingEntries ==
    { [winner_id |-> winner_id, user_id |-> user_id] :
        winner_id \in {UnknownUserId, 11},
        user_id \in {1, 11} }

\* the mapping files
MappingFiles ==
    UNION { [1..n -> MappingEntries] : n \in 0..MaxMappings }

\* a mapping entry that is carried out: both users exist and differ
MappingApplies(user_ids, entry) ==
    /\ entry.winner_id \in user_ids
    /\ entry.user_id \in user_ids
    /\ entry.winner_id # entry.user_id

\* the rows of a user moved to another user, the door kept
RECURSIVE MoveRewards(_, _, _)
MoveRewards(table, rows, user_id) ==
    IF rows = <<>> THEN table
    ELSE MoveRewards(
             UpsertReward(table \ {rows[1]},
                          [rows[1] EXCEPT !.user_id = user_id]),
             Tail(rows), user_id)

\* faulty variant of migrate_placeholder_user_rewards: the placeholder user
\* is kept
RECURSIVE migrate_placeholder_user_rewards_KeepsUser(_, _, _, _, _, _)
migrate_placeholder_user_rewards_KeepsUser(user_ids, table, mappings, idx, migrated, removed) ==
    IF idx > Len(mappings)
    THEN [users |-> user_ids, rewards |-> table, migrated |-> migrated,
          removed |-> removed]
    ELSE IF ~MappingApplies(user_ids, mappings[idx])
         THEN migrate_placeholder_user_rewards_KeepsUser(
                  user_ids, table, mappings, idx + 1, migrated, removed)
         ELSE LET rows == {r \in table : r.user_id = mappings[idx].winner_id} IN
              migrate_placeholder_user_rewards_KeepsUser(
                  user_ids,
                  MoveRewards(table, SeqOf(rows), mappings[idx].user_id),
                  mappings, idx + 1, migrated + Cardinality(rows), removed + 1)

\* migrate_placeholder_user_rewards: users, user_rewards and the two numbers
\* returned after the mapping entries from position idx on
RECURSIVE migrate_placeholder_user_rewards(_, _, _, _, _, _)
migrate_placeholder_user_rewards(user_ids, table, mappings, idx, migrated, removed) ==
    IF idx > Len(mappings)
    THEN [users |-> user_ids, rewards |-> table, migrated |-> migrated,
          removed |-> removed]
    ELSE IF ~MappingApplies(user_ids, mappings[idx])
         THEN migrate_placeholder_user_rewards(user_ids, table, mappings,
                                               idx + 1, migrated, removed)
         ELSE LET rows == {r \in table : r.user_id = mappings[idx].winner_id} IN
              migrate_placeholder_user_rewards(
                  user_ids \ {mappings[idx].winner_id},
                  MoveRewards(table, SeqOf(rows), mappings[idx].user_id),
                  mappings, idx + 1, migrated + Cardinality(rows), removed + 1)

\* the database before the migration: the real users and the placeholder
\* user, some of MigrationRows
InitMigration ==
    /\ now = 1
    /\ calendar_active = TRUE
    /\ users = UserIds \cup {UnknownUserId}
    /\ teilnehmer = <<>>
    /\ gewinner = <<>>
    /\ preise = <<>>
    /\ user_rewards \in SUBSET MigrationRows
    /\ qr_codes = {}
    /\ tuerchen_status = Doors
    /\ pc = [p \in Procs |-> "idle"]
    /\ req = [p \in Procs |-> IdleReq]
    /\ requests = 0
    /\ is_error = FALSE
    /\ call = NoCall
    /\ rewards_schema = init_user_db(NoTable)
    /\ kalender_status = NoStatusFile

\* migrated, removed = migrate_placeholder_user_rewards(connection, mapping_file)
CallMigrate(mappings) ==
    /\ call = NoCall
    /\ LET done == migrate_placeholder_user_rewards(users, user_rewards,
                                                    mappings, 1, 0, 0)
       IN /\ users' = done.users
          /\ user_rewards' = done.rewards
          /\ call' = [fn |-> "migrate_placeholder_user_rewards",
                      mappings |-> mappings, users |-> users,
                      rewards |-> user_rewards, migrated |-> done.migrated,
                      removed |-> done.removed]
    /\ UNCHANGED <<now, calendar_active, teilnehmer, gewinner, preise,
                   qr_codes, tuerchen_status, pc, req, requests, is_error,
                   rewards_schema, kalender_status>>

NextMigration == \E mappings \in MappingFiles : CallMigrate(mappings)

SpecMigration == InitMigration /\ [][NextMigration]_vars

\* was migrate_placeholder_user_rewards called
MigrateCalled == call.fn = "migrate_placeholder_user_rewards"

\* C31: placeholder migration: a mapping (winner_id -> user_id) between two
\* users removes the placeholder user winner_id and moves each of its
\* rewards to user_id with the door kept; the numbers returned are the
\* rewards migrated and the placeholder users removed; afterwards no reward
\* refers to a removed user.  The counts of rewards are stated for calls
\* with one mapping entry
C31_PlaceholderMigration ==
    MigrateCalled =>
        /\ \A r \in user_rewards : r.user_id \in users
        /\ call.removed = Cardinality(call.users \ users)
        /\ \A r \in call.rewards :
             r.user_id \notin users =>
                \E s \in user_rewards : s.door = r.door /\ s.user_id \in users
        /\ \A r \in call.rewards : r.user_id \in users => r \in user_rewards
        /\ Len(call.mappings) = 1 /\ MappingApplies(call.users, call.mappings[1]) =>
            LET m == call.mappings[1]
                moved == {r \in call.rewards : r.user_id = m.winner_id}
            IN /\ m.winner_id \notin users
               /\ call.removed = 1
               /\ call.migrated = Cardinality(moved)
               /\ \A r \in moved :
                    \E s \in user_rewards :
                        /\ s.user_id = m.user_id
                        /\ s.door = r.door
                        /\ s.prize_name = r.prize_name

\* C31 witness: the two rewards of the placeholder user went to user 1 and
\* the placeholder user is gone
C31_Witness ==
    /\ MigrateCalled
    /\ Len(call.mappings) = 1
    /\ call.mappings[1] = [winner_id |-> UnknownUserId, user_id |-> 1]
    /\ call.migrated = 2
    /\ call.removed = 1
    /\ UnknownUserId \notin users
    /\ \A door \in {1, 2} :
        \E r \in user_rewards : r.user_id = 1 /\ r.door = door

(***************************************************************************)
(* The calendar's switch: the process starts with the flag loaded from     *)
(* kalender_status.json, the admin sets it, door requests read it.         *)
(***************************************************************************)

\* calendar_active = load_calendar_status() at import, over the files the
\* process can find
InitCalendar ==
    /\ now = 1
    /\ kalender_status \in {NoStatusFile, save_calendar_status(TRUE),
                            save_calendar_status(FALSE)}
    /\ calendar_active = load_calendar_status(kalender_status)
    /\ users = UserIds
    /\ teilnehmer = <<>>
    /\ gewinner = <<>>
    /\ preise = InitialPool
    /\ user_rewards = {}
    /\ qr_codes = {}
    /\ tuerchen_status = Doors
    /\ pc = [p \in Procs |-> "idle"]
    /\ req = [p \in Procs |-> IdleReq]
    /\ requests = 0
    /\ is_error = FALSE
    /\ call = NoCall
    /\ rewards_schema = init_user_db(NoTable)

NextCalendar ==
    \/ \E new_status \in BOOLEAN : AdminUpdateStatus(new_status)
    \/ OpenStep
    \/ Tick

SpecCalendar == InitCalendar /\ [][NextCalendar]_vars

RejectedResults == {"LoginRedirect", "CalendarInactive", "NotYetAvailable",
                    "AlreadyOpened"}

\* the responses of a request that ran to its end: a win or a loss
DoneResults == {"Won", "Lost", "NoPrizeLeft", "PoolExhausted"}

\* thread p responds in this step
Responds(p) == pc[p] # "done" /\ pc'[p] = "done"

\* C33: every open_door call ends in DONE (a win or a loss) or in an early
\* REJECTED exit, and never stays in an intermediate state (participation
\* recorded but no result, prize drawn but win not recorded), assuming each
\* ledger operation completes or raises: a request that responds answers
\* with a rejection, a win or a loss, or with an error because writing the
\* QR code or the reward raised.
C33_EveryCallTerminates ==
    [][\A p \in Procs :
          Responds(p) =>
              \/ req'[p].result \in RejectedResults \cup DoneResults
              \/ /\ req'[p].result = "InternalError"
                 /\ pc[p] \in {"qr", "reward"}]_vars

\* C34: doors are the day slots 1..24 only: a request for a day in 25..31,
\* made in December on that very day, ends with a rejection or a loss,
\* leaves no participation record and awards no prize.
C34_DoorsAreDaySlots ==
    \A tag \in Tags \ Doors :
        /\ \A p \in Procs :
               (pc[p] = "done" /\ req[p].tag = tag) =>
                   req[p].result \in RejectedResults \cup {"Lost", "NoPrizeLeft",
                                                           "PoolExhausted"}
        /\ \A user_id \in UserIds :
               /\ ~RecordExists(user_id, tag)
               /\ WinCount(user_id, tag) = 0

\* C35: participation records are removed only by the admin's reset of the
\* participation log: every other step (a door request on any path, a user
\* deletion, the winners' reset, the QR purge, a pool configuration, the
\* calendar switch) keeps every record of teilnehmer.txt as it is and at most
\* appends, so hat_teilgenommen(user, day), once true, stays true until
\* that reset.
C35_RecordsRemovedOnlyByReset ==
    [][teilnehmer' # teilnehmer =>
          \/ AdminResetTeilnehmer
          \/ /\ Len(teilnehmer') >= Len(teilnehmer)
             /\ SubSeq(teilnehmer', 1, Len(teilnehmer)) = teilnehmer
             /\ \A user_id \in UserIds, tag \in Tags :
                    hat_teilgenommen(teilnehmer, user_id, tag)
                        => hat_teilgenommen(teilnehmer', user_id, tag)]_vars

\* C35 witness: a user who opened a door was deleted afterwards, and the
\* participation record is still there
C35_Witness ==
    \E user_id \in UserIds \ users, tag \in Tags :
        hat_teilgenommen(teilnehmer, user_id, tag)

\* C36: a pool configuration or a reward release that completes while a door
\* request is in flight (after the request read the pool, before its draw is
\* saved) is not lost: when the only door request there is saves its draw,
\* the persisted pool afterwards is the pool persisted just before (the
\* configured or released one) less the one unit drawn, never the list the
\* request had loaded earlier.
C36_ConfigureDuringDrawNotLost ==
    [][\A p \in Procs :
          (/\ pc[p] = "draw" /\ pc'[p] = "win"
           /\ \A q \in Procs \ {p} : pc[q] = "idle") =>
              LET before == StoredPool(preise)
                  after == StoredPool(preise')
              IN /\ Len(after) = Len(before)
                 /\ \A i \in 1..Len(before) :
                        /\ after[i].name = before[i].name
                        /\ after[i].total = before[i].total
                        /\ after[i].remaining <= before[i].remaining
                 /\ SumRemaining(before) - SumRemaining(after) <= 1]_vars

\* the rows of a table for one (user, door)
RowsOf(table, user_id, door) == {r \in table : r.user_id = user_id /\ r.door = door}

\* C37: the reward store holds at most one row per (user, door) in every
\* reachable state: recording a reward for a (user, door) that already has a
\* row replaces that row's prize, sponsor, link, QR file name and timestamp
\* instead of adding a second row, and leaves the rows of every other
\* (user, door) unchanged.
C37_OneRowPerUserAndDoor ==
    /\ \A r1, r2 \in user_rewards :
           (r1.user_id = r2.user_id /\ r1.door = r2.door) => r1 = r2
    /\ (call.fn = "record_user_reward" /\ call.stored) =>
           /\ \E r \in user_rewards :
                  /\ RowsOf(user_rewards, call.user_id, call.door) = {r}
                  /\ r.prize_name = call.prize_name
                  /\ r.sponsor = call.sponsor
                  /\ r.sponsor_link = call.sponsor_link
                  /\ r.qr_filename = QrFilename(call.user_id, call.door)
                  /\ r.created_at = now
           /\ user_rewards \ RowsOf(user_rewards, call.user_id, call.door)
                  = call.before \ RowsOf(call.before, call.user_id, call.door)

\* C37 witness: a reward was recorded for a (user, door) that already had a
\* row with another prize and an earlier timestamp
C37_Witness ==
    /\ call.fn = "record_user_reward" /\ call.stored
    /\ \E old \in RowsOf(call.before, call.user_id, call.door) :
           old.prize_name # call.prize_name /\ old.created_at # now

(***************************************************************************)
(* hat_teilgenommen over the files speichere_teilnehmer writes.            *)
(***************************************************************************)

\* the most records written before hat_teilgenommen is asked
MaxRecords == 2

\* display names with a ':' and with a '-' followed by a number
ParticipantNames == { <<"A">>, <<"1", ":", "B">>, <<"B", "-", "1">> }

\* days of which one is written as the end of another
ParticipantDays == {1, 11, 12}

\* what is written: who, under which display name, for which day
ParticipationRecords ==
    [uid : UserIds, name : ParticipantNames, tag : ParticipantDays]

ParticipationLists ==
    UNION { [1..n -> ParticipationRecords] : n \in 0..MaxRecords }

RECURSIVE WriteAll(_, _)
\* speichere_teilnehmer called for each record in turn
WriteAll(file, records) ==
    IF records = <<>> THEN file
    ELSE WriteAll(speichere_teilnehmer(file, records[1].uid, records[1].name,
                                       records[1].tag),
                  Tail(records))

\* speichere_teilnehmer(...) for some users and days, then
\* hat_teilgenommen(user_identifier, tag)
CallParticipated(records, user_identifier, tag) ==
    /\ call = NoCall
    /\ teilnehmer' = WriteAll(teilnehmer, records)
    /\ call' = [fn |-> "hat_teilgenommen", written |-> records,
                user_identifier |-> user_identifier, tag |-> tag,
                result |-> hat_teilgenommen(teilnehmer', user_identifier, tag)]
    /\ UNCHANGED <<now, calendar_active, users, gewinner, preise, user_rewards,
                   qr_codes, tuerchen_status, pc, req, requests, is_error,
                   rewards_schema, kalender_status>>

NextParticipated ==
    \E records \in ParticipationLists, user_identifier \in UserIds,
       tag \in ParticipantDays :
        CallParticipated(records, user_identifier, tag)

SpecParticipated == InitPool /\ [][NextParticipated]_vars

\* C38: participation is per user: a participation record of user A for day d
\* never makes hat_teilgenommen(B, d) true for another user B, also when A's
\* id is the beginning of B's (1 and 11) or when a display name contains ':'
\* or '-'; and hat_teilgenommen(A, d) is true only for the very day d
\* recorded: the answer is true exactly when a record was written for that
\* user and that day.
C38_ParticipationIsPerUser ==
    call.fn = "hat_teilgenommen" =>
        (call.result <=>
             \E i \in 1..Len(call.written) :
                 /\ call.written[i].uid = call.user_identifier
                 /\ call.written[i].tag = call.tag)

\* C38 witness: user 1 was recorded for day 1 under a name with ':' or '-',
\* and the question was asked for user 11 and for a day that ends in 1
C38_Witness ==
    /\ call.fn = "hat_teilgenommen"
    /\ call.user_identifier = 11 /\ call.tag = 11
    /\ ~call.result
    /\ \E i \in 1..Len(call.written) :
           /\ call.written[i].uid = 1 /\ call.written[i].tag = 1
           /\ call.written[i].name # <<"A">>
    /\ \E i \in 1..Len(call.written) :
           call.written[i].uid = 11 /\ call.written[i].tag = 1

(***************************************************************************)
(* load_prizes over what preise.json can hold.  In this specification the  *)
(* variable preise is the file as found on disk: its shape and, for a list *)
(* of objects with numeric counts, the entries.                            *)
(***************************************************************************)

\* the most entries of a stored list
MaxEntries == 2

\* entries as a hand-edited or older file can hold them: blank names, totals
\* of zero or below, remaining above total
StoredEntries ==
    { PrizeEntry(name, total, remaining, <<>>, <<>>) :
          name \in { <<>>, <<"W">> }, total \in {-1, 0, 1, 2}, remaining \in {0, 1, 2} }

\* no file; text that is no JSON (json.JSONDecodeError); a JSON number or null
\* (TypeError, not iterable); a list of objects with a count that is no
\* number (ValueError); JSON whose items are no objects, such as ["x"] or
\* {"a": 1} (AttributeError at entry.get); a list of objects
PrizeFileShapes ==
    {"missing", "not_json", "scalar", "bad_number", "items_not_objects"}

PrizeFiles ==
    { [shape |-> shape, entries |-> <<>>] : shape \in PrizeFileShapes }
        \cup { [shape |-> "list", entries |-> entries] :
                   entries \in UNION { [1..n -> StoredEntries] : n \in 0..MaxEntries } }

\* load_prizes(): what it returns or that it raised, and the file afterwards
load_prizes_from(file) ==
    IF file.shape = "items_not_objects"
    THEN [raised |-> TRUE, prizes |-> <<>>, file |-> file]
    ELSE IF file.shape = "list" /\ LoadedEntries(file.entries) # <<>>
    THEN [raised |-> FALSE, prizes |-> load_prizes(file.entries), file |-> file]
    ELSE [raised |-> FALSE, prizes |-> default_prizes,
          file |-> [shape |-> "list", entries |-> default_prizes]]

InitLoad ==
    /\ now = 1
    /\ calendar_active = TRUE
    /\ users = UserIds
    /\ teilnehmer = <<>>
    /\ gewinner = <<>>
    /\ preise \in PrizeFiles
    /\ user_rewards = {}
    /\ qr_codes = {}
    /\ tuerchen_status = Doors
    /\ pc = [p \in Procs |-> "idle"]
    /\ req = [p \in Procs |-> IdleReq]
    /\ requests = 0
    /\ is_error = FALSE
    /\ call = NoCall
    /\ rewards_schema = init_user_db(NoTable)
    /\ kalender_status = NoStatusFile

\* prizes = load_prizes()
CallLoad ==
    /\ call = NoCall
    /\ LET loaded == load_prizes_from(preise) IN
       /\ preise' = loaded.file
       /\ call' = [fn |-> "load_prizes", file |-> preise,
                   raised |-> loaded.raised, prizes |-> loaded.prizes]
    /\ UNCHANGED <<now, calendar_active, users, teilnehmer, gewinner, user_rewards,
                   qr_codes, tuerchen_status, pc, req, requests, is_error,
                   rewards_schema, kalender_status>>

NextLoad == CallLoad

SpecLoad == InitLoad /\ [][NextLoad]_vars

\* the file holds an entry with a non-empty name and a total above 0
HoldsAnEntry(file) ==
    /\ file.shape = "list"
    /\ \E i \in 1..Len(file.entries) :
           Strip(file.entries[i].name) # <<>> /\ file.entries[i].total > 0

\* C39: loading the pool never yields an empty pool: when the persisted pool
\* is missing, unreadable, or holds no entry with a non-empty name and
\* total > 0, load returns the default single entry (Freigetränk, total 15,
\* remaining 15) and writes it to the file; a pool whose entries have
\* total > 0 and remaining 0 is kept as it is and is not refilled.
C39_LoadNeverYieldsEmptyPool ==
    call.fn = "load_prizes" =>
        /\ ~call.raised
        /\ call.prizes # <<>>
        /\ ~HoldsAnEntry(call.file) =>
               /\ call.prizes = default_prizes
               /\ preise = [shape |-> "list", entries |-> default_prizes]
        /\ HoldsAnEntry(call.file) =>
               /\ preise = call.file
               /\ (\A i \in 1..Len(call.file.entries) :
                       call.file.entries[i].remaining = 0)
                      => SumRemaining(call.prizes) = 0

====
